---- MODULE Spec2Model ----
(***************************************************************************)
(* Model of the WebIDL front end of shaka-player-embedded                  *)
(* (shaka/tools/webidl): the PLY lexer (lexer.py), the feature gate        *)
(* (parser.Options), the PLY grammar parser with its error aggregation     *)
(* (parser.IdlParser) and the hand-written argument-list reader            *)
(* (idl_parser.IdlParser.read_arg_list).                                    *)
(*                                                                         *)
(* A source text is a sequence of lexemes, each a maximal match of one of  *)
(* the lexer's token rules together with its length in characters, so      *)
(* that character offsets, line numbers and columns are computed as the    *)
(* lexer computes them.  The LALR engine of PLY is modelled by one         *)
(* operator yacc_X per grammar symbol X, which shifts the tokens of X onto  *)
(* PLY's symbol stack, and one operator p_X per rule function, which       *)
(* reduces the symbols of the rule to the value the function returns; p[k] *)
(* of the function is P(s, n, k).  Each reduction runs where PLY runs it,  *)
(* and PLY's error recovery (p_error, the error count of 3, the 'error'    *)
(* productions) is modelled as PLY executes it.                            *)
(***************************************************************************)
EXTENDS Integers, Sequences, FiniteSets, TLC

VARIABLES parser, ctor, call, reader, sreader, tokenizer, tcall, threads,
          versions, loop

vars == <<parser, ctor, call, reader, sreader, tokenizer, tcall, threads,
          versions, loop>>

\* ------------------------------------------------------------------ bounds
MaxDefs == 2
MaxCalls == 2

\* ------------------------------------------------------------- utilities
SetMax(S) == CHOOSE x \in S : \A y \in S : y <= x
SetMin(S) == CHOOSE x \in S : \A y \in S : x <= y
Dec(n) == IF n > 0 THEN n - 1 ELSE 0

RECURSIVE Flatten(_)
Flatten(ss) == IF ss = <<>> THEN <<>> ELSE Head(ss) \o Flatten(Tail(ss))

IsPrefix(p, s) == Len(p) <= Len(s) /\ SubSeq(s, 1, Len(p)) = p

\* ---------------------------------------------------------------- lexemes
\* c: the token rule that matches, v: the matched text, n: its length,
\* num: the numeric value of an integer literal (0 otherwise).
Lx(c, v, n) == [n |-> n, c |-> c, v |-> v, num |-> 0]
Wd(v, n) == Lx("word", v, n)
Pn(v) == Lx("lit", v, 1)
Sp == Lx("ws", " ", 1)
Nl == Lx("nl", "\n", 1)
Bad == Lx("bad", "@", 1)
Doc == Lx("doc", "/** D */", 8)
IntLit(v, n, num) == [n |-> n, c |-> "int", v |-> v, num |-> num]

\* ------------------------------------------------------- lexer.IdlLexer
_keywords ==
  { "any", "attribute", "callback", "const", "deleter", "dictionary", "enum",
    "false", "getter", "includes", "Infinity", "inherit", "interface",
    "iterable", "maplike", "namespace", "NaN", "null", "optional", "partial",
    "required", "sequence", "setlike", "setter", "static", "stringifier",
    "true", "typedef", "void", "boolean", "byte", "double", "float", "long",
    "short", "octet", "unrestricted", "unsigned", "record", "ByteString",
    "DOMString", "FrozenArray", "Promise", "USVString" }

\* str.upper() on the keywords.
Upper(v) ==
  CASE v = "any" -> "ANY"
    [] v = "attribute" -> "ATTRIBUTE"
    [] v = "callback" -> "CALLBACK"
    [] v = "const" -> "CONST"
    [] v = "deleter" -> "DELETER"
    [] v = "dictionary" -> "DICTIONARY"
    [] v = "enum" -> "ENUM"
    [] v = "false" -> "FALSE"
    [] v = "getter" -> "GETTER"
    [] v = "includes" -> "INCLUDES"
    [] v = "Infinity" -> "INFINITY"
    [] v = "inherit" -> "INHERIT"
    [] v = "interface" -> "INTERFACE"
    [] v = "iterable" -> "ITERABLE"
    [] v = "maplike" -> "MAPLIKE"
    [] v = "namespace" -> "NAMESPACE"
    [] v = "NaN" -> "NAN"
    [] v = "null" -> "NULL"
    [] v = "optional" -> "OPTIONAL"
    [] v = "partial" -> "PARTIAL"
    [] v = "required" -> "REQUIRED"
    [] v = "sequence" -> "SEQUENCE"
    [] v = "setlike" -> "SETLIKE"
    [] v = "setter" -> "SETTER"
    [] v = "static" -> "STATIC"
    [] v = "stringifier" -> "STRINGIFIER"
    [] v = "true" -> "TRUE"
    [] v = "typedef" -> "TYPEDEF"
    [] v = "void" -> "VOID"
    [] v = "boolean" -> "BOOLEAN"
    [] v = "byte" -> "BYTE"
    [] v = "double" -> "DOUBLE"
    [] v = "float" -> "FLOAT"
    [] v = "long" -> "LONG"
    [] v = "short" -> "SHORT"
    [] v = "octet" -> "OCTET"
    [] v = "unrestricted" -> "UNRESTRICTED"
    [] v = "unsigned" -> "UNSIGNED"
    [] v = "record" -> "RECORD"
    [] v = "ByteString" -> "BYTESTRING"
    [] v = "DOMString" -> "DOMSTRING"
    [] v = "FrozenArray" -> "FROZENARRAY"
    [] v = "Promise" -> "PROMISE"
    [] v = "USVString" -> "USVSTRING"
    [] OTHER -> v

\* t_IDENTIFIER: a keyword gets its own token type.
t_IDENTIFIER(v) == IF v \in _keywords THEN Upper(v) ELSE "IDENTIFIER"

\* The number of characters of lexemes lo..hi of the text.
RECURSIVE Chars(_, _, _)
Chars(contents, lo, hi) ==
  IF lo > hi THEN 0
  ELSE IF lo = hi THEN contents[lo].n
  ELSE Chars(contents, lo, (lo + hi) \div 2)
         + Chars(contents, (lo + hi) \div 2 + 1, hi)

\* The character offset of lexeme j of the text.
Offset(contents, j) == Chars(contents, 1, j - 1)

TextLen(contents) == Offset(contents, Len(contents) + 1)

\* The offsets of the newline characters of the text.
NewlineOffsets(contents) ==
  { Offset(contents, j) : j \in { k \in 1..Len(contents) : contents[k].c = "nl" } }

\* str.rfind('\n', 0, pos) and str.find('\n', pos).
rfind(contents, pos) ==
  SetMax({ p \in NewlineOffsets(contents) : p < pos } \cup {-1})
find(contents, pos) ==
  IF \E p \in NewlineOffsets(contents) : p >= pos
  THEN SetMin({ p \in NewlineOffsets(contents) : p >= pos })
  ELSE -1

get_col(contents, pos) == pos - rfind(contents, pos)

\* The line is contents[prev+1:nxt]; it is represented by these two offsets.
get_line(contents, pos) ==
  <<rfind(contents, pos) + 1,
    IF find(contents, pos) < 0 THEN TextLen(contents) ELSE find(contents, pos)>>

\* The token type the lexer's rules give a lexeme; "skip" for the rules that
\* return nothing, LEXERR where t_error raises.
TokenType(x) ==
  CASE x.c \in {"ws", "nl", "com"} -> "skip"
    [] x.c = "bad" -> "LEXERR"
    [] x.c = "word" -> t_IDENTIFIER(x.v)
    [] x.c = "int" -> "INTEGER_LITERAL"
    [] x.c = "str" -> "STRING_LITERAL"
    [] x.c = "doc" -> "DOCSTRING"
    [] x.c = "ell" -> "ELLIPSIS"
    [] OTHER -> x.v

\* t_newline: the line number at lexeme j, the counter starting at lineno.
LineAt(contents, j, lineno) ==
  lineno + Cardinality({ k \in 1..(j - 1) : contents[k].c = "nl" })

\* lex.token() called until the input ends: the tokens in order, each with
\* the line number and offset the lexer gives it, ended by "$end", or by a
\* LEXERR entry where t_error raises.
Lex(contents, lineno) ==
  LET tok(j) == [num |-> contents[j].num, lineno |-> LineAt(contents, j, lineno),
                 type |-> TokenType(contents[j]),
                 value |-> contents[j].v,
                 lexpos |-> Offset(contents, j)]
      Returned(t) == t.type # "skip"
      Cut(toks, bad) ==
        IF bad = {}
        THEN Append(toks, [num |-> 0, lineno |-> LineAt(contents, Len(contents) + 1, lineno), type |-> "$end",
                           value |-> "$end",
                           lexpos |-> TextLen(contents)])
        ELSE SubSeq(toks, 1, SetMin(bad))
      Illegal(toks) == { k \in 1..Len(toks) : toks[k].type = "LEXERR" }
      Tokens(toks) == Cut(toks, Illegal(toks))
  IN  Tokens(SelectSeq([j \in 1..Len(contents) |-> tok(j)], Returned))

\* IdlLexer.set_contents: the line counter restarts at 1.
set_contents_lineno(old) == 1

\* IdlLexer.t_error: the SyntaxError the lexer raises at an illegal character.
t_error(file, contents, t) ==
  [file |-> file, cls |-> "SyntaxError",
   msg |-> <<"Unexpected character", t.value>>, line |-> t.lineno, col |-> get_col(contents, t.lexpos),
   text |-> get_line(contents, t.lexpos), inner |-> "None"]

\* ------------------------------------------------ parser.Features/Options
\* A feature name is the sequence of its dash-separated segments, the dashes
\* included, so that str.startswith is the prefix relation on sequences.
DICTIONARY == <<"dictionary">>
DICTIONARY_REQUIRED == <<"dictionary", "-", "required">>
DICTIONARY_DEFAULT == <<"dictionary", "-", "default">>

_all_features == { DICTIONARY, DICTIONARY_REQUIRED, DICTIONARY_DEFAULT }

_ASSUMED_PREFIXES == << <<<<"dictionary", "-">>, DICTIONARY>> >>

\* Options that enable the features given and no other.
Options_exact(args) ==
  IF args \ _all_features # {}
  THEN [raised |-> TRUE, features |-> {}]
  ELSE [raised |-> FALSE, features |-> args]

\* Options.__init__: [raised |-> TRUE] for the ValueError, else the features.
Options(args) ==
  IF args \ _all_features # {}
  THEN [raised |-> TRUE, features |-> {}]
  ELSE [raised |-> FALSE,
        features |->
          args \cup { _ASSUMED_PREFIXES[k][2] :
                       k \in { j \in 1..Len(_ASSUMED_PREFIXES) :
                                 \E item \in args :
                                   IsPrefix(_ASSUMED_PREFIXES[j][1], item) } }]

\* Options.all
Options_all == Options(_all_features)

\* Options.has_feature, for a known feature.
has_feature(options, feature) == feature \in options.features

\* ------------------------------------------------------ types.ExtensionKind
NO_ARGS == "NoArgs"
ARG_LIST == "ArgList"
NAMED_ARG_LIST == "NamedArgList"
IDENT == "Ident"
IDENT_LIST == "IdentList"

ExtensionKind == { NO_ARGS, ARG_LIST, NAMED_ARG_LIST, IDENT, IDENT_LIST }

ExtensionLocation ==
  { "definition", "type", "member", "mixin member", "namespace member",
    "dictionary member", "argument" }


\* ----------------------------------------------------- the PLY LALR engine
\* A parse in progress: i indexes the lookahead token, ec is PLY's
\* errorcount, errs is IdlParser.errors, stk is PLY's symbol stack, st is
\* "ok", "fail" (the lookahead fits no action of the state), "err" (PLY is
\* unwinding its stack to a state that shifts 'error'), "halt" (PLY gave up
\* at the end of the input and yacc.parse returns None), "lex" (the lexer
\* raised, exc holds the exception) or "crash" (another exception escapes).
\* The context c holds the token list and what the rule functions read.
\* None is <<>>, and a value x that may be None is <<x>>.
error_count == 3

Tok(c, s) == c.toks[s.i]
TT(c, s) == c.toks[s.i].type
Ok(s) == s.st = "ok"

\* Symbol k of the n symbols of the rule being reduced: P(s, n, k).value is
\* p[k], and its lineno and lexpos are p.lineno(k) and p.lexpos(k).
P(s, n, k) == s.stk[Len(s.stk) - n + k]

\* yacc: reduce the n symbols on top of the stack to a symbol with the value
\* the rule function returns.  With tracking=True the symbol takes the
\* position of the first of the n; no rule reads the position of an empty
\* symbol.
Reduce(s, n, value) ==
  IF ~Ok(s) THEN s
  ELSE [s EXCEPT !.stk =
          Append(SubSeq(@, 1, Len(@) - n),
                 [num |-> 0, lineno |-> IF n = 0 THEN 0 ELSE P(s, n, 1).lineno, type |-> "nt",
                  value |-> value,
                  lexpos |-> IF n = 0 THEN 0 ELSE P(s, n, 1).lexpos])]

\* IdlParser._add_error
_add_error(c, errs, message, line, offset, except_type, inner) ==
  Append(errs, [file |-> c.file, cls |-> except_type, msg |-> message,
                line |-> line, col |-> get_col(c.contents, offset),
                text |-> get_line(c.contents, offset), inner |-> inner])

\* A parser that does not look at its options.
_check_options_skipped(c, errs, t, feature) == errs

\* IdlParser._check_options(p, idx, feature), t being symbol idx of p.
_check_options(c, errs, t, feature) ==
  IF has_feature(c.options, feature)
  THEN errs
  ELSE _add_error(c, errs, <<"Feature is not allowed by options">> \o feature,
                  t.lineno, t.lexpos, "SyntaxError", "None")

\* IdlParser._get_debug(p, idx), t being symbol idx of p.
_get_debug(c, t) ==
  [lineno |-> t.lineno, line |-> get_line(c.contents, t.lexpos),
   col |-> get_col(c.contents, t.lexpos)]

\* IdlParser._token_to_str
_token_to_str(t) ==
  IF t.type \in {"STRING_LITERAL", "DOCSTRING", "FLOAT_LITERAL", "INTEGER_LITERAL"}
  THEN t.type ELSE t.value

\* The message of p_error for the token t; last is lexer.last.  The
\* 'after "<previous token>"' suffix of the message is not modelled.
p_error_msg(t, last) ==
  IF t.type = "$end" THEN <<"Unexpected end of file after", last.value>>
  ELSE IF t.type = "DOCSTRING"
  THEN <<"Doc-strings are only allowed before definitions or members">>
  ELSE <<"Unexpected", _token_to_str(t)>>

\* IdlParser.p_error.  At the end of the input the error is placed at the
\* last token the lexer returned.
p_error(c, s) ==
  IF TT(c, s) = "$end"
  THEN _add_error(c, s.errs, p_error_msg(Tok(c, s), c.toks[s.i - 1]),
                  c.toks[s.i - 1].lineno, c.toks[s.i - 1].lexpos,
                  "SyntaxError", "None")
  ELSE _add_error(c, s.errs, p_error_msg(Tok(c, s), Tok(c, s)),
                  Tok(c, s).lineno, Tok(c, s).lexpos, "SyntaxError", "None")

\* yacc: the lexer raises while the parser reads its lookahead.
LexRaise(c, s) ==
  [s EXCEPT !.st = "lex", !.exc = <<t_error(c.file, c.contents, Tok(c, s))>>]

\* yacc: no action for the lookahead.  p_error is called unless fewer than
\* error_count tokens were shifted since the last error; at the end of the
\* input the parse is abandoned.
SynErr(c, s) ==
  [s EXCEPT !.errs = IF s.ec = 0 THEN p_error(c, s) ELSE s.errs,
            !.ec = error_count,
            !.st = IF TT(c, s) = "$end" THEN "halt" ELSE "err"]

\* yacc: a rule raised SyntaxError: recovery starts without calling p_error.
RuleRaise(c, s) == [s EXCEPT !.ec = error_count, !.st = "err"]

\* The lookahead fits nothing the state can do: the rules under way are
\* abandoned up to the state that recovers (Caught).
Fail(c, s) == [s EXCEPT !.st = "fail"]

\* yacc at the lookahead that fits nothing: the lexer raised on reading it,
\* or it is a syntax error.
Raise(c, s) == IF TT(c, s) = "LEXERR" THEN LexRaise(c, s) ELSE SynErr(c, s)
Caught(c, s) == IF s.st = "fail" THEN Raise(c, s) ELSE s

\* yacc: shift the lookahead; a shift counts down errorcount.
Shift(c, s) ==
  IF ~Ok(s) THEN s
  ELSE [s EXCEPT !.i = @ + 1, !.ec = Dec(@), !.stk = Append(@, Tok(c, s))]

\* Shift a token of one of the types T, or fail.
Expect(c, s, T) ==
  IF ~Ok(s) THEN s
  ELSE IF TT(c, s) \in T THEN Shift(c, s) ELSE Fail(c, s)

\* A reduction that needs the lookahead to be one of T.
Ahead(c, s, T) ==
  IF ~Ok(s) THEN s
  ELSE IF TT(c, s) \in T THEN s ELSE Fail(c, s)

\* The first token after the lookahead of s that is of the type close, or
\* that ends the parse.
NextOf(c, s, close) ==
  SetMin({ k \in (s.i + 1)..Len(c.toks) :
             c.toks[k].type \in {close, "LEXERR", "$end"} })

\* yacc in a state that has shifted 'error' and waits for the token close:
\* every other token is an error again (never reported, errorcount being
\* positive) and is discarded.
SkipTo(c, s, close) ==
  IF TT(c, s) = close THEN Shift(c, s)
  ELSE IF TT(c, s) = "LEXERR" THEN LexRaise(c, s)
  ELSE IF SynErr(c, s).st # "err" THEN SynErr(c, s)
  ELSE IF c.toks[NextOf(c, s, close)].type = close
  THEN Shift(c, [SynErr(c, s) EXCEPT !.st = "ok", !.i = NextOf(c, s, close)])
  ELSE IF c.toks[NextOf(c, s, close)].type = "LEXERR"
  THEN LexRaise(c, [SynErr(c, s) EXCEPT !.i = NextOf(c, s, close)])
  ELSE [SynErr(c, s) EXCEPT !.st = "halt", !.i = NextOf(c, s, close)]

\* yacc: the stack is popped down to the state b that shifts 'error', the
\* error symbol is shifted, and the offending token is the lookahead again.
ShiftError(c, b, s) ==
  [s EXCEPT !.st = "ok", !.ec = Dec(@),
            !.stk = Append(b.stk, [num |-> 0, lineno |-> Tok(c, s).lineno,
                                   type |-> "error", value |-> "error",
                                   lexpos |-> Tok(c, s).lexpos])]

\* ------------------------------------------------------------ first sets
PrimitiveFirst ==
  { "UNSIGNED", "LONG", "SHORT", "UNRESTRICTED", "FLOAT", "DOUBLE", "BOOLEAN",
    "BYTE", "OCTET" }
StringTypes == { "BYTESTRING", "DOMSTRING", "USVSTRING" }
ConstValueFirst ==
  { "TRUE", "FALSE", "FLOAT_LITERAL", "NAN", "INFINITY", "INTEGER_LITERAL",
    "NULL" }
TypeFirst ==
  PrimitiveFirst \cup StringTypes \cup
    { "IDENTIFIER", "PROMISE", "SEQUENCE", "FROZENARRAY", "RECORD", "ANY", "(" }
ArgumentNames ==
  { "IDENTIFIER", "ATTRIBUTE", "CALLBACK", "CONST", "DELETER", "DICTIONARY",
    "ENUM", "GETTER", "INCLUDES", "INHERIT", "INTERFACE", "ITERABLE",
    "MAPLIKE", "NAMESPACE", "PARTIAL", "REQUIRED", "SETLIKE", "SETTER",
    "STATIC", "STRINGIFIER", "TYPEDEF", "UNRESTRICTED" }
\* The lookaheads on which an ExtendedAttribute is reduced.
ExtendedAttributeFollow == { ",", "]" }
\* The lookaheads on which an ExtendedAttributeList is reduced: what can
\* follow it in a definition, a member, an annotated type or an argument.
ExtendedAttributeListFollow == { "DICTIONARY", "REQUIRED", "OPTIONAL" } \cup TypeFirst
\* The lookaheads on which a Type is reduced.
TypeFollow == ArgumentNames \cup { "ELLIPSIS", ">" }
\* The lookaheads on which a Dictionary is reduced.
DefinitionFirst == { "DOCSTRING", "[", "DICTIONARY" }
DictionaryFollow == DefinitionFirst \cup { "$end" }
\* The lookaheads on which a DictionaryMember is reduced.
MemberFirst == { "DOCSTRING", "[", "REQUIRED" } \cup TypeFirst
MemberFollow == MemberFirst \cup { "}" }
ArgumentFirst == { "[", "OPTIONAL" } \cup TypeFirst

\* --------------------------------------------------------- grammar rules
RECURSIVE yacc_Type(_, _), yacc_ReturnType(_, _), yacc_NonAnyType(_, _),
          yacc_TypeWithExtendedAttributes(_, _),
          yacc_ExtendedAttributeList(_, _), yacc_ExtendedAttributes(_, _),
          yacc_ExtendedAttribute(_, _), yacc_ExtendedAttributeRest(_, _),
          RecoverBracket(_, _, _), yacc_ArgumentList(_, _),
          yacc_Arguments(_, _), yacc_Argument(_, _), yacc_ArgumentRest(_, _)

\* Empty :
p_Empty(s) == Reduce(s, 0, <<>>)

\* A p_Null that gives False for '?' too.
p_Null_never(s) == Reduce(s, 1, FALSE)

\* Null : '?' | Empty
p_Null(s) == Reduce(s, 1, P(s, 1, 1).type = "?")

yacc_Null(c, s) ==
  IF ~Ok(s) THEN s
  ELSE IF TT(c, s) = "?" THEN p_Null(Shift(c, s))
  ELSE IF TT(c, s) = "LEXERR" THEN Fail(c, s)
  ELSE p_Null(p_Empty(s))

\* types.IdlType; the name is the list of its words, which ' '.join makes
\* one string of.
IdlType(name, nullable, element_type) ==
  [name |-> name, nullable |-> nullable, element_type |-> element_type]

\* A p_PrimitiveType that names the type by its first keyword.
p_PrimitiveType_first(s, n) ==
  Reduce(s, n, IdlType(<<P(s, n, 1).value>>, FALSE, <<>>))

\* PrimitiveType : UNSIGNED LONG LONG | UNSIGNED LONG | ... | OCTET
p_PrimitiveType(s, n) ==
  Reduce(s, n, IdlType([k \in 1..n |-> P(s, n, k).value], FALSE, <<>>))

yacc_PrimitiveType(c, s) ==
  CASE TT(c, s) = "UNSIGNED" ->
         IF TT(c, Shift(c, s)) = "LONG"
         THEN IF TT(c, Shift(c, Shift(c, s))) = "LONG"
              THEN p_PrimitiveType(Shift(c, Shift(c, Shift(c, s))), 3)
              ELSE p_PrimitiveType(Shift(c, Shift(c, s)), 2)
         ELSE p_PrimitiveType(Expect(c, Shift(c, s), {"SHORT"}), 2)
    [] TT(c, s) = "LONG" ->
         IF TT(c, Shift(c, s)) = "LONG"
         THEN p_PrimitiveType(Shift(c, Shift(c, s)), 2)
         ELSE p_PrimitiveType(Shift(c, s), 1)
    [] TT(c, s) = "UNRESTRICTED" ->
         p_PrimitiveType(Expect(c, Shift(c, s), {"FLOAT", "DOUBLE"}), 2)
    [] OTHER -> p_PrimitiveType(Expect(c, s, PrimitiveFirst), 1)

\* StringType : BYTESTRING | DOMSTRING | USVSTRING
p_StringType(s) == Reduce(s, 1, IdlType(<<P(s, 1, 1).value>>, FALSE, <<>>))

yacc_StringType(c, s) == p_StringType(Expect(c, s, StringTypes))

\* A p_ReturnType that gives 'void' as a nullable type.
p_ReturnType_nullable(s) ==
  Reduce(s, 1, IF P(s, 1, 1).type = "VOID"
               THEN IdlType(<<"void">>, FALSE, <<>>)
               ELSE [P(s, 1, 1).value EXCEPT !.nullable = TRUE])

\* ReturnType : Type | VOID
p_ReturnType(s) ==
  Reduce(s, 1, IF P(s, 1, 1).type = "VOID"
               THEN IdlType(<<"void">>, FALSE, <<>>)
               ELSE P(s, 1, 1).value)

yacc_ReturnType(c, s) ==
  IF ~Ok(s) THEN s
  ELSE IF TT(c, s) = "VOID" THEN p_ReturnType(Shift(c, s))
  ELSE p_ReturnType(yacc_Type(c, s))

\* NonAnyType : PrimitiveType Null | StringType Null | IDENTIFIER Null
\*            | PROMISE '<' ReturnType '>'
\*            | SEQUENCE '<' TypeWithExtendedAttributes '>' Null
\*            | FROZENARRAY '<' TypeWithExtendedAttributes '>' Null
\*            | RECORD '<' StringType ',' TypeWithExtendedAttributes '>' Null
p_NonAnyType(s, n) ==
  Reduce(s, n,
    CASE n = 2 ->
           IF P(s, 2, 1).type = "nt"
           THEN [P(s, 2, 1).value EXCEPT !.nullable = P(s, 2, 2).value]
           ELSE IdlType(<<P(s, 2, 1).value>>, P(s, 2, 2).value, <<>>)
      [] n = 4 -> IdlType(<<"Promise">>, FALSE, <<P(s, 4, 3).value>>)
      [] n = 5 ->
           IdlType(<<P(s, 5, 1).value>>, P(s, 5, 5).value, <<P(s, 5, 3).value>>)
      [] n = 7 ->
           IdlType(<<P(s, 7, 1).value>>, P(s, 7, 7).value,
                   <<P(s, 7, 3).value, P(s, 7, 5).value>>))

yacc_NonAnyType(c, s) ==
  IF ~Ok(s) THEN s
  ELSE CASE TT(c, s) \in PrimitiveFirst ->
              p_NonAnyType(yacc_Null(c, yacc_PrimitiveType(c, s)), 2)
         [] TT(c, s) \in StringTypes ->
              p_NonAnyType(yacc_Null(c, yacc_StringType(c, s)), 2)
         [] TT(c, s) = "IDENTIFIER" ->
              p_NonAnyType(yacc_Null(c, Shift(c, s)), 2)
         [] TT(c, s) = "PROMISE" ->
              p_NonAnyType(
                Expect(c, yacc_ReturnType(c, Expect(c, Shift(c, s), {"<"})),
                       {">"}), 4)
         [] TT(c, s) \in {"SEQUENCE", "FROZENARRAY"} ->
              p_NonAnyType(
                yacc_Null(c,
                  Expect(c, yacc_TypeWithExtendedAttributes(
                              c, Expect(c, Shift(c, s), {"<"})), {">"})), 5)
         [] TT(c, s) = "RECORD" ->
              p_NonAnyType(
                yacc_Null(c,
                  Expect(c, yacc_TypeWithExtendedAttributes(
                              c, Expect(c, yacc_StringType(
                                             c, Expect(c, Shift(c, s), {"<"})),
                                        {","})), {">"})), 7)
         [] OTHER -> Fail(c, s)

\* UnionType : '(' ')'.  The rule function raises
\* SyntaxError('Union types not supported'), which PLY turns into error
\* recovery.
p_UnionType(c, s) == IF Ok(s) THEN RuleRaise(c, s) ELSE s

yacc_UnionType(c, s) ==
  p_UnionType(c, Ahead(c, Expect(c, Shift(c, s), {")"}), TypeFollow \cup {"?"}))

\* SingleType : NonAnyType | ANY
p_SingleType(s) ==
  Reduce(s, 1, IF P(s, 1, 1).type = "ANY"
               THEN IdlType(<<"any">>, FALSE, <<>>)
               ELSE P(s, 1, 1).value)

\* Type : SingleType | UnionType Null
p_Type(s, n) ==
  Reduce(s, n, IF n = 1 THEN P(s, 1, 1).value
               ELSE [P(s, 2, 1).value EXCEPT !.nullable = P(s, 2, 2).value])

yacc_Type(c, s) ==
  IF ~Ok(s) THEN s
  ELSE IF TT(c, s) = "ANY" THEN p_Type(p_SingleType(Shift(c, s)), 1)
  ELSE IF TT(c, s) = "(" THEN p_Type(yacc_Null(c, yacc_UnionType(c, s)), 2)
  ELSE p_Type(p_SingleType(yacc_NonAnyType(c, s)), 1)

\* TypeWithExtendedAttributes : ExtendedAttributeList Type
p_TypeWithExtendedAttributes(s) == Reduce(s, 2, P(s, 2, 2).value)

yacc_TypeWithExtendedAttributes(c, s) ==
  p_TypeWithExtendedAttributes(yacc_Type(c, yacc_ExtendedAttributeList(c, s)))

\* The value the lexer or p_ConstValue converts the literal t to: its kind,
\* and the number or the text of the literal.
Const(k, t) == [num |-> t.num, k |-> k, str |-> t.value]

\* ConstValue : TRUE | FALSE | FLOAT_LITERAL | NAN | INFINITY | '-' INFINITY
\*            | INTEGER_LITERAL | NULL
p_ConstValue(s, n) ==
  Reduce(s, n,
    IF n = 2 THEN Const("-Infinity", P(s, 2, 1))
    ELSE IF P(s, 1, 1).type \in {"FLOAT_LITERAL", "INTEGER_LITERAL"}
    THEN Const("number", P(s, 1, 1))
    ELSE Const(P(s, 1, 1).value, P(s, 1, 1)))

\* DefaultValue : ConstValue | STRING_LITERAL | '[' ']'
p_DefaultValue(s, n) ==
  Reduce(s, n,
    IF n = 2 THEN Const("[]", P(s, 2, 1))
    ELSE IF P(s, 1, 1).type = "STRING_LITERAL" THEN Const("string", P(s, 1, 1))
    ELSE P(s, 1, 1).value)

yacc_DefaultValue(c, s) ==
  IF ~Ok(s) THEN s
  ELSE CASE TT(c, s) \in ConstValueFirst ->
              p_DefaultValue(p_ConstValue(Shift(c, s), 1), 1)
         [] TT(c, s) = "-" ->
              p_DefaultValue(
                p_ConstValue(Expect(c, Shift(c, s), {"INFINITY"}), 2), 1)
         [] TT(c, s) = "STRING_LITERAL" -> p_DefaultValue(Shift(c, s), 1)
         [] TT(c, s) = "[" -> p_DefaultValue(Expect(c, Shift(c, s), {"]"}), 2)
         [] OTHER -> Fail(c, s)

\* Default : '=' DefaultValue | Empty
p_Default(s, n) == Reduce(s, n, IF n = 2 THEN <<P(s, 2, 2).value>> ELSE <<>>)

yacc_Default(c, s) ==
  IF ~Ok(s) THEN s
  ELSE IF TT(c, s) = "=" THEN p_Default(yacc_DefaultValue(c, Shift(c, s)), 2)
  ELSE IF TT(c, s) = "LEXERR" THEN Fail(c, s)
  ELSE p_Default(p_Empty(s), 1)

\* ----------------------------------------------------------- argument list
\* types.Argument
Argument(name, type, optional, is_variadic, default) ==
  [type |-> type, name |-> name, optional |-> optional,
   is_variadic |-> is_variadic, default |-> default]

\* Ellipsis : ELLIPSIS | Empty
p_Ellipsis(s) == Reduce(s, 1, P(s, 1, 1).type = "ELLIPSIS")

yacc_Ellipsis(c, s) ==
  IF ~Ok(s) THEN s
  ELSE IF TT(c, s) = "ELLIPSIS" THEN p_Ellipsis(Shift(c, s))
  ELSE p_Ellipsis(p_Empty(s))

\* ArgumentName : IDENTIFIER | ATTRIBUTE | ... | UNRESTRICTED
p_ArgumentName(s) == Reduce(s, 1, P(s, 1, 1).value)

yacc_ArgumentName(c, s) == p_ArgumentName(Expect(c, s, ArgumentNames))

\* Argument : ExtendedAttributeList OPTIONAL TypeWithExtendedAttributes ArgumentName Default
\*          | ExtendedAttributeList Type Ellipsis ArgumentName
p_Argument(s, n) ==
  Reduce(s, n,
    IF n = 5
    THEN Argument(P(s, 5, 4).value, P(s, 5, 3).value, TRUE, FALSE,
                  P(s, 5, 5).value)
    ELSE Argument(P(s, 4, 4).value, P(s, 4, 2).value, FALSE, P(s, 4, 3).value,
                  <<>>))

yacc_ArgumentRest(c, s) ==
  IF ~Ok(s) THEN s
  ELSE IF TT(c, s) = "OPTIONAL"
  THEN p_Argument(
         yacc_Default(c, yacc_ArgumentName(
                           c, yacc_TypeWithExtendedAttributes(c, Shift(c, s)))),
         5)
  ELSE p_Argument(yacc_ArgumentName(c, yacc_Ellipsis(c, yacc_Type(c, s))), 4)

yacc_Argument(c, s) == yacc_ArgumentRest(c, yacc_ExtendedAttributeList(c, s))

\* Rules that do not check the argument against the ones after it.
MustBeLast_unchecked(c, errs, arg, rest) == errs

\* The check p_ArgumentList and p_Arguments make of the argument arg against
\* the symbol rest that holds the arguments after it: the error is added with
\* p.lineno(rest) as its line and as its offset.
MustBeLast(c, errs, arg, rest) ==
  IF arg.optional /\ rest.value # <<>> /\ ~rest.value[1].optional
  THEN _add_error(c, errs, <<"Optional arguments must be last">>,
                  rest.lineno, rest.lineno, "SyntaxError", "None")
  ELSE IF arg.is_variadic /\ rest.value # <<>>
  THEN _add_error(c, errs, <<"Variadic argument must be last">>,
                  rest.lineno, rest.lineno, "SyntaxError", "None")
  ELSE errs

\* Arguments : ',' Argument Arguments | Empty
p_Arguments(c, s, n) ==
  IF ~Ok(s) \/ n = 1 THEN Reduce(s, n, <<>>)
  ELSE Reduce([s EXCEPT !.errs = MustBeLast(c, @, P(s, 3, 2).value, P(s, 3, 3))],
              3, <<P(s, 3, 2).value>> \o P(s, 3, 3).value)

\* The empty Arguments is reduced when the lookahead is the closing ')'.
yacc_Arguments(c, s) ==
  IF ~Ok(s) THEN s
  ELSE IF TT(c, s) = ","
  THEN p_Arguments(c, yacc_Arguments(c, yacc_Argument(c, Shift(c, s))), 3)
  ELSE p_Arguments(c, p_Empty(Ahead(c, s, {")"})), 1)

\* ArgumentList : Argument Arguments | Empty
p_ArgumentList(c, s, n) ==
  IF ~Ok(s) \/ n = 1 THEN Reduce(s, n, <<>>)
  ELSE Reduce([s EXCEPT !.errs = MustBeLast(c, @, P(s, 2, 1).value, P(s, 2, 2))],
              2, <<P(s, 2, 1).value>> \o P(s, 2, 2).value)

yacc_ArgumentList(c, s) ==
  IF ~Ok(s) THEN s
  ELSE IF TT(c, s) \in ArgumentFirst
  THEN p_ArgumentList(c, yacc_Arguments(c, yacc_Argument(c, s)), 2)
  ELSE p_ArgumentList(c, p_Empty(Ahead(c, s, {")"})), 1)

\* ------------------------------------------------------ extended attributes
\* IdentifierList : IDENTIFIER Identifiers
p_IdentifierList(s) == Reduce(s, 2, <<P(s, 2, 1).value>> \o P(s, 2, 2).value)

\* Identifiers : ',' IDENTIFIER Identifiers | Empty
p_Identifiers(s, n) ==
  Reduce(s, n, IF n = 3 THEN <<P(s, 3, 2).value>> \o P(s, 3, 3).value ELSE <<>>)

RECURSIVE yacc_Identifiers(_, _)
yacc_Identifiers(c, s) ==
  IF ~Ok(s) THEN s
  ELSE IF TT(c, s) = ","
  THEN p_Identifiers(
         yacc_Identifiers(c, Expect(c, Shift(c, s), {"IDENTIFIER"})), 3)
  ELSE p_Identifiers(p_Empty(s), 1)

yacc_IdentifierList(c, s) ==
  p_IdentifierList(yacc_Identifiers(c, Expect(c, s, {"IDENTIFIER"})))

\* A registered descriptor (a subclass of types.Extension) has the class
\* attributes name, kinds and locations; it has no attribute 'kind', so
\* reading it raises AttributeError.
kind_attr(desc) == [value |-> {}, raised |-> TRUE]

\* The loop of p_ExtendedAttribute that picks the descriptor, from entry k
\* of the registry on: extension is the index of the one picked so far, 0
\* for None.
RECURSIVE FindExtension(_, _, _, _, _)
FindExtension(exts, k, name, kind, extension) ==
  IF k > Len(exts) THEN [raised |-> FALSE, extension |-> extension]
  ELSE IF exts[k].name = name
  THEN IF extension = 0
       THEN FindExtension(exts, k + 1, name, kind, k)
       ELSE IF kind_attr(exts[extension]).raised \/ kind_attr(exts[k]).raised
       THEN [raised |-> TRUE, extension |-> extension]
       ELSE IF kind \notin kind_attr(exts[extension]).value
               /\ kind \in kind_attr(exts[k]).value
       THEN FindExtension(exts, k + 1, name, kind, k)
       ELSE FindExtension(exts, k + 1, name, kind, extension)
  ELSE FindExtension(exts, k + 1, name, kind, extension)

\* The kind p_ExtendedAttribute gives a rule of n symbols.
KindOf(n) ==
  CASE n = 1 -> NO_ARGS
    [] n = 3 -> IDENT
    [] n = 4 -> ARG_LIST
    [] n = 5 -> IDENT_LIST
    [] n = 6 -> NAMED_ARG_LIST

\* The keyword arguments p_ExtendedAttribute passes to the descriptor: has is
\* the set of the names passed; the value of 'args' is kept in args when it
\* is a list of Argument objects and in idents when it is a list of names.
ExtArgs(has, arg, argName, args, idents) ==
  [args |-> args, arg |-> arg, has |-> has, argName |-> argName,
   idents |-> idents]

ArgsOf(s, n) ==
  CASE n = 1 -> ExtArgs({}, "", "", <<>>, <<>>)
    [] n = 3 -> ExtArgs({"arg"}, P(s, 3, 3).value, "", <<>>, <<>>)
    [] n = 4 -> ExtArgs({"args"}, "", "", P(s, 4, 3).value, <<>>)
    [] n = 5 -> ExtArgs({"args"}, "", "", <<>>, P(s, 5, 4).value)
    [] n = 6 ->
         ExtArgs({"argName", "args"}, "", P(s, 6, 3).value, P(s, 6, 5).value,
                 <<>>)

KindNames(kind) ==
  CASE kind = NO_ARGS -> "no arguments"
    [] kind = ARG_LIST -> "an argument list"
    [] kind = NAMED_ARG_LIST -> "a named argument list"
    [] kind = IDENT -> "an identifier"
    [] kind = IDENT_LIST -> "an identifier list"

InKinds(kind, kinds) == \E k \in 1..Len(kinds) : kinds[k] = kind

\* The message for the annotation name of the given kind that fits no
\* descriptor; extension is the index of the descriptor picked, 0 for None.
MismatchMessage(exts, extension, name, kind) ==
  IF extension = 0 THEN <<"Unknown extension", name>>
  ELSE IF Len(exts[extension].kinds) = 1
  THEN <<"should have", name, KindNames(exts[extension].kinds[1]),
         "but was given", KindNames(kind)>>
  ELSE <<"is not in an allowed form", name>>

\* The value of p_ExtendedAttribute: the tuple (extension, line, offset),
\* ext being <<>> for None.
ExtensionAt(ext, t) == [line |-> t.lineno, offset |-> t.lexpos, ext |-> ext]

\* p_ExtendedAttribute once the loop has picked the descriptor f.  A
\* descriptor whose init is "raises" raises RuntimeError('My error') when it
\* is constructed.
ExtendedAttributeAction(c, s, n, f) ==
  IF f.raised THEN [s EXCEPT !.st = "crash"]
  ELSE IF f.extension = 0 \/ ~InKinds(KindOf(n), c.extensions[f.extension].kinds)
  THEN Reduce([s EXCEPT !.errs =
                 _add_error(c, @, MismatchMessage(c.extensions, f.extension,
                                                  P(s, n, 1).value, KindOf(n)),
                            P(s, n, 1).lineno, P(s, n, 1).lexpos,
                            "SyntaxError", "None"),
                         !.rec = @ + 1],
              n, ExtensionAt(<<>>, P(s, n, 1)))
  ELSE IF c.extensions[f.extension].init = "raises"
  THEN Reduce([s EXCEPT !.errs =
                 _add_error(c, @, <<"My error">>, P(s, n, 1).lineno,
                            P(s, n, 1).lexpos, "ExtensionError", "RuntimeError"),
                         !.rec = @ + 1],
              n, ExtensionAt(<<>>, P(s, n, 1)))
  ELSE Reduce(s, n,
              ExtensionAt(<<[cls |-> f.extension,
                             name |-> c.extensions[f.extension].name,
                             kwargs |-> ArgsOf(s, n)]>>, P(s, n, 1)))

\* ExtendedAttribute : IDENTIFIER | IDENTIFIER '=' IDENTIFIER
\*                   | IDENTIFIER '(' ArgumentList ')'
\*                   | IDENTIFIER '=' '(' IdentifierList ')'
\*                   | IDENTIFIER '=' IDENTIFIER '(' ArgumentList ')'
p_ExtendedAttribute(c, s, n) ==
  IF ~Ok(s) THEN s
  ELSE ExtendedAttributeAction(
         c, s, n,
         FindExtension(c.extensions, 1, P(s, n, 1).value, KindOf(n), 0))

\* The type of the k-th token after the lookahead.
After(c, s, k) == c.toks[s.i + k].type

\* The forms after the name, told apart by the tokens that follow it; the
\* rule is reduced when the lookahead is ',' or ']'.
yacc_ExtendedAttributeRest(c, s) ==
  CASE ~Ok(s) -> s
    [] TT(c, s) \in ExtendedAttributeFollow -> p_ExtendedAttribute(c, s, 1)
    [] TT(c, s) = "(" ->
         p_ExtendedAttribute(
           c, Ahead(c, Expect(c, yacc_ArgumentList(c, Shift(c, s)), {")"}),
                    ExtendedAttributeFollow), 4)
    [] TT(c, s) = "=" /\ After(c, s, 1) = "(" ->
         p_ExtendedAttribute(
           c, Ahead(c, Expect(c, yacc_IdentifierList(c, Shift(c, Shift(c, s))),
                              {")"}),
                    ExtendedAttributeFollow), 5)
    [] TT(c, s) = "=" /\ After(c, s, 1) = "IDENTIFIER"
         /\ After(c, s, 2) \in ExtendedAttributeFollow ->
         p_ExtendedAttribute(c, Shift(c, Shift(c, s)), 3)
    [] TT(c, s) = "=" /\ After(c, s, 1) = "IDENTIFIER" /\ After(c, s, 2) = "(" ->
         p_ExtendedAttribute(
           c, Ahead(c, Expect(c, yacc_ArgumentList(
                                   c, Shift(c, Shift(c, Shift(c, s)))), {")"}),
                    ExtendedAttributeFollow), 6)
    [] TT(c, s) = "=" /\ After(c, s, 1) = "IDENTIFIER" ->
         Fail(c, Shift(c, Shift(c, s)))
    [] TT(c, s) = "=" -> Fail(c, Shift(c, s))
    [] OTHER -> Fail(c, s)

yacc_ExtendedAttribute(c, s) ==
  yacc_ExtendedAttributeRest(c, Expect(c, s, {"IDENTIFIER"}))

\* ExtendedAttributes : ',' ExtendedAttribute ExtendedAttributes | Empty
p_ExtendedAttributes(s, n) ==
  Reduce(s, n, IF n = 3 THEN <<P(s, 3, 2).value>> \o P(s, 3, 3).value ELSE <<>>)

yacc_ExtendedAttributes(c, s) ==
  IF ~Ok(s) THEN s
  ELSE IF TT(c, s) = ","
  THEN p_ExtendedAttributes(
         yacc_ExtendedAttributes(c, yacc_ExtendedAttribute(c, Shift(c, s))), 3)
  ELSE p_ExtendedAttributes(p_Empty(s), 1)

\* ExtendedAttributeList : '[' ExtendedAttribute ExtendedAttributes ']' | Empty
p_ExtendedAttributeList(s, n) ==
  Reduce(s, n, IF n = 4 THEN <<P(s, 4, 2).value>> \o P(s, 4, 3).value ELSE <<>>)

\* ExtendedAttributeList : '[' error ']'
p_ExtendedAttributeList_error(s) ==
  IF ~Ok(s) THEN s ELSE Reduce([s EXCEPT !.rec = @ + 1], 3, <<>>)

\* yacc after an error inside the list opened in state b, l being the parse
\* at the error: PLY pops its stack down to the '[', shifts 'error', discards
\* tokens up to the next ']' and reduces when the lookahead can follow a
\* list.
RecoverBracket(c, b, l) ==
  IF l.st # "err" THEN l
  ELSE RecoverBracket(
         c, b, p_ExtendedAttributeList_error(
                 Caught(c, Ahead(c, SkipTo(c, ShiftError(c, b, l), "]"),
                                 ExtendedAttributeListFollow))))

\* The list is reduced when the lookahead can follow it.
yacc_ExtendedAttributeList(c, s) ==
  IF ~Ok(s) THEN s
  ELSE IF TT(c, s) = "["
  THEN RecoverBracket(
         c, Shift(c, s),
         p_ExtendedAttributeList(
           Caught(c, Ahead(c, Expect(c, yacc_ExtendedAttributes(
                                          c, yacc_ExtendedAttribute(
                                               c, Shift(c, s))), {"]"}),
                           ExtendedAttributeListFollow)), 4))
  ELSE IF TT(c, s) = "LEXERR" THEN Fail(c, s)
  ELSE p_ExtendedAttributeList(p_Empty(s), 1)

\* --------------------------------------------------------------- dictionary
\* MaybeDoc : DOCSTRING | Empty
p_MaybeDoc(s) ==
  Reduce(s, 1, IF P(s, 1, 1).type = "DOCSTRING" THEN <<P(s, 1, 1).value>>
               ELSE <<>>)

yacc_MaybeDoc(c, s) ==
  IF ~Ok(s) THEN s
  ELSE IF TT(c, s) = "DOCSTRING" THEN p_MaybeDoc(Shift(c, s))
  ELSE IF TT(c, s) = "LEXERR" THEN Fail(c, s)
  ELSE p_MaybeDoc(p_Empty(s))

\* types.Attribute
Attribute(name, type, default, is_required, doc, debug, docDebug) ==
  [type |-> type, name |-> name, default |-> default,
   is_required |-> is_required, doc |-> doc, debug |-> debug,
   docDebug |-> docDebug]

\* DictionaryMemberRest : REQUIRED TypeWithExtendedAttributes IDENTIFIER Default ';'
\*                      | Type IDENTIFIER Default ';'
\* A p_DictionaryMemberRest whose required member has no default.
p_DictionaryMemberRest_no_default(c, s, n) ==
  IF ~Ok(s) THEN s
  ELSE IF n = 5
  THEN Reduce([s EXCEPT !.errs =
                 _check_options(c, @, P(s, 5, 1), DICTIONARY_REQUIRED)],
              5, Attribute(P(s, 5, 3).value, P(s, 5, 2).value, <<>>,
                           TRUE, <<>>, <<_get_debug(c, P(s, 5, 1))>>, <<>>))
  ELSE Reduce([s EXCEPT !.errs =
                 IF P(s, 4, 3).value # <<>>
                 THEN _check_options(c, @, P(s, 4, 3), DICTIONARY_DEFAULT)
                 ELSE @],
              4, Attribute(P(s, 4, 2).value, P(s, 4, 1).value, P(s, 4, 3).value,
                           FALSE, <<>>, <<_get_debug(c, P(s, 4, 1))>>, <<>>))

p_DictionaryMemberRest(c, s, n) ==
  IF ~Ok(s) THEN s
  ELSE IF n = 5
  THEN Reduce([s EXCEPT !.errs =
                 IF P(s, 5, 4).value # <<>>
                 THEN _check_options(
                        c, _check_options(c, @, P(s, 5, 1), DICTIONARY_REQUIRED),
                        P(s, 5, 4), DICTIONARY_DEFAULT)
                 ELSE _check_options(c, @, P(s, 5, 1), DICTIONARY_REQUIRED)],
              5, Attribute(P(s, 5, 3).value, P(s, 5, 2).value, P(s, 5, 4).value,
                           TRUE, <<>>, <<_get_debug(c, P(s, 5, 1))>>, <<>>))
  ELSE Reduce([s EXCEPT !.errs =
                 IF P(s, 4, 3).value # <<>>
                 THEN _check_options(c, @, P(s, 4, 3), DICTIONARY_DEFAULT)
                 ELSE @],
              4, Attribute(P(s, 4, 2).value, P(s, 4, 1).value, P(s, 4, 3).value,
                           FALSE, <<>>, <<_get_debug(c, P(s, 4, 1))>>, <<>>))

\* The rule is reduced when the lookahead can follow a member.
yacc_DictionaryMemberRest(c, s) ==
  IF ~Ok(s) THEN s
  ELSE IF TT(c, s) = "REQUIRED"
  THEN p_DictionaryMemberRest(
         c, Ahead(c, Expect(c, yacc_Default(
                                 c, Expect(c, yacc_TypeWithExtendedAttributes(
                                                c, Shift(c, s)),
                                           {"IDENTIFIER"})), {";"}),
                  MemberFollow), 5)
  ELSE IF TT(c, s) \in TypeFirst
  THEN p_DictionaryMemberRest(
         c, Ahead(c, Expect(c, yacc_Default(
                                 c, Expect(c, yacc_Type(c, s), {"IDENTIFIER"})),
                            {";"}),
                  MemberFollow), 4)
  ELSE Fail(c, s)

\* DictionaryMember : MaybeDoc ExtendedAttributeList DictionaryMemberRest
p_DictionaryMember(c, s) ==
  Reduce(s, 3, [P(s, 3, 3).value EXCEPT
                  !.doc = P(s, 3, 1).value,
                  !.docDebug = IF P(s, 3, 1).value # <<>>
                               THEN <<_get_debug(c, P(s, 3, 1))>> ELSE <<>>])

yacc_DictionaryMember(c, s) ==
  p_DictionaryMember(
    c, yacc_DictionaryMemberRest(
         c, yacc_ExtendedAttributeList(c, yacc_MaybeDoc(c, s))))

\* DictionaryMembers : DictionaryMember DictionaryMembers | Empty
p_DictionaryMembers(s, n) ==
  Reduce(s, n, IF n = 2 THEN <<P(s, 2, 1).value>> \o P(s, 2, 2).value ELSE <<>>)

RECURSIVE yacc_DictionaryMembers(_, _)
yacc_DictionaryMembers(c, s) ==
  IF ~Ok(s) THEN s
  ELSE IF TT(c, s) \in MemberFirst
  THEN p_DictionaryMembers(
         yacc_DictionaryMembers(c, yacc_DictionaryMember(c, s)), 2)
  ELSE p_DictionaryMembers(p_Empty(s), 1)

\* types.Dictionary
Dictionary(name, attributes, doc, debug, docDebug, extensions) ==
  [name |-> name, extensions |-> extensions, doc |-> doc, debug |-> debug,
   docDebug |-> docDebug, attributes |-> attributes]

\* Dictionary : MaybeDoc ExtendedAttributeList DICTIONARY IDENTIFIER '{' DictionaryMembers '}' ';'
p_Dictionary(c, s) ==
  IF ~Ok(s) THEN s
  ELSE Reduce([s EXCEPT !.errs = _check_options(c, @, P(s, 8, 3), DICTIONARY)],
              8, Dictionary(P(s, 8, 4).value, P(s, 8, 6).value, P(s, 8, 1).value,
                            <<_get_debug(c, P(s, 8, 3))>>,
                            IF P(s, 8, 1).value # <<>>
                            THEN <<_get_debug(c, P(s, 8, 1))>> ELSE <<>>,
                            [j \in 1..Len(P(s, 8, 2).value) |->
                               P(s, 8, 2).value[j].ext]))

\* Dictionary : MaybeDoc ExtendedAttributeList DICTIONARY IDENTIFIER '{' error '}' ';'
p_Dictionary_error(c, s) ==
  IF ~Ok(s) THEN s
  ELSE Reduce([s EXCEPT !.errs = _check_options(c, @, P(s, 8, 3), DICTIONARY),
                        !.rec = @ + 1],
              8, Dictionary(P(s, 8, 4).value, <<>>, P(s, 8, 1).value, <<>>, <<>>,
                            [j \in 1..Len(P(s, 8, 2).value) |->
                               P(s, 8, 2).value[j].ext]))

\* yacc after an error inside the member list opened in state b, l being the
\* parse at the error: PLY pops its stack down to the '{', shifts 'error' and
\* discards tokens up to a '}' that is followed by ';' and by something that
\* can follow a definition.
RECURSIVE RecoverBrace(_, _, _)
\* A grammar without the rule Dictionary : ... '{' error '}' ';': the parse
\* is abandoned at the first error inside a member list.
RecoverBrace_abandoned(c, b, l) ==
  IF l.st # "err" THEN l ELSE [l EXCEPT !.st = "halt"]

RecoverBrace(c, b, l) ==
  IF l.st # "err" THEN l
  ELSE RecoverBrace(
         c, b, p_Dictionary_error(
                 c, Caught(c, Ahead(c, Expect(c, SkipTo(c, ShiftError(c, b, l),
                                                        "}"), {";"}),
                                    DictionaryFollow))))

\* The members of the Dictionary whose '{' has been shifted in state b;
\* either rule is reduced when the lookahead can follow a definition.
yacc_DictionaryBody(c, b) ==
  IF ~Ok(b) THEN b
  ELSE RecoverBrace(
         c, b, p_Dictionary(
                 c, Caught(c, Ahead(c, Expect(c, Expect(
                                                   c, yacc_DictionaryMembers(c, b),
                                                   {"}"}), {";"}),
                                    DictionaryFollow))))

yacc_Dictionary(c, s) ==
  yacc_DictionaryBody(
    c, Expect(c, Expect(c, Expect(c, yacc_ExtendedAttributeList(
                                       c, yacc_MaybeDoc(c, s)),
                                  {"DICTIONARY"}), {"IDENTIFIER"}), {"{"}))

\* Definition : Dictionary
p_Definition(s) == Reduce(s, 1, P(s, 1, 1).value)

\* Definitions : Definition Definitions | Empty
p_Definitions(s, n) ==
  Reduce(s, n, IF n = 2 THEN <<P(s, 2, 1).value>> \o P(s, 2, 2).value ELSE <<>>)

\* yacc at the end of the input: the empty Definitions has been reduced, and
\* each Definition on the stack is reduced with the Definitions after it.
RECURSIVE ReduceDefinitions(_)
ReduceDefinitions(s) ==
  IF Ok(s) /\ Len(s.stk) > 1 THEN ReduceDefinitions(p_Definitions(s, 2)) ELSE s

\* yacc: an error outside every '{' and '[' leaves no state that shifts
\* 'error': PLY empties its stack, discards the lookahead and starts again.
Restart(s) ==
  IF s.st = "err" THEN [s EXCEPT !.st = "ok", !.i = @ + 1, !.stk = <<>>] ELSE s

\* Definition : Dictionary, or the error at a token that starts none.
yacc_Definition(c, s) ==
  IF TT(c, s) \in DefinitionFirst THEN p_Definition(yacc_Dictionary(c, s))
  ELSE Fail(c, s)

\* The start symbol: Definition after Definition up to the end of the input.
RECURSIVE yacc_Definitions(_, _)
yacc_Definitions(c, s) ==
  IF ~Ok(s) THEN s
  ELSE IF TT(c, s) = "$end" THEN ReduceDefinitions(p_Definitions(p_Empty(s), 1))
  ELSE yacc_Definitions(c, Restart(Caught(c, yacc_Definition(c, s))))

\* yacc.parse(lexer=self.lexer, tracking=True)
yacc_parse(c, errors) ==
  yacc_Definitions(c, [i |-> 1, st |-> "ok", stk |-> <<>>, errs |-> errors,
                       exc |-> <<>>, ec |-> 0, rec |-> 0])

\* ------------------------------------------------------------- IdlParser
\* A parse that keeps the errors of the call before it.
ResetErrors_kept(errors) == errors

\* IdlParser.parse empties self.errors on entry.
ResetErrors(errors) == <<>>

\* A parse that places the error raised out of yacc.parse after the errors
\* recorded before it.
CollectErrors_appended(r) == IF r.st = "lex" THEN r.errs \o r.exc ELSE r.errs

\* The errors of a parse call: the error raised out of yacc.parse, if any,
\* is placed in front of the errors recorded before it.
CollectErrors(r) == IF r.st = "lex" THEN r.exc \o r.errs ELSE r.errs

\* IdlSyntaxError.__init__: the exception takes the arguments of errors[0].
IdlSyntaxError(errors) ==
  [file |-> errors[1].file, msg |-> errors[1].msg, line |-> errors[1].line,
   col |-> errors[1].col, text |-> errors[1].text, kind |-> "IdlSyntaxError",
   inner_errors |-> errors, types |-> <<>>, none |-> FALSE]

\* What a call leaves that is no IdlSyntaxError: the Results returned (none
\* tells that its types is None), or the exception that escapes.
Outcome(kind, name, types, none) ==
  [file |-> name, msg |-> <<>>, line |-> 0, col |-> 0, text |-> <<>>,
   kind |-> kind, inner_errors |-> <<>>, types |-> types, none |-> none]

\* The lexer after yacc has stopped at token i of toks: lineno is the line
\* counter, last the index of the last token returned.
LexerAfter(name, contents, toks, i) ==
  [contents |-> contents, lineno |-> toks[i].lineno, last |-> IF toks[i].type \in {"$end", "LEXERR"} THEN i - 1 ELSE i,
   file_name |-> name]

\* IdlParser.parse after self.yacc.parse has ended in r, in the context c:
\* the outcome of the call, the instance it leaves, and (run) what yacc.parse
\* left: the errors the rules recorded, the exception raised and how it ended.
parse_end(self, c, r) ==
  [self |->
     [self EXCEPT !.errors = CollectErrors(r),
                  !.lexer = LexerAfter(c.file, c.contents, c.toks,
                                       IF r.i <= Len(c.toks) THEN r.i
                                       ELSE Len(c.toks))],
   run |-> [st |-> r.st, errs |-> r.errs, exc |-> r.exc, rec |-> r.rec],
   outcome |->
     IF r.st = "crash" THEN Outcome("AttributeError", c.file, <<>>, FALSE)
     ELSE IF CollectErrors(r) # <<>> THEN IdlSyntaxError(CollectErrors(r))
     ELSE IF r.st = "halt" THEN Outcome("Results", c.file, <<>>, TRUE)
     ELSE Outcome("Results", c.file, r.stk[1].value, FALSE)]

\* IdlParser.parse statement by statement, for calls that run at the same
\* time.  self.errors = []
parse_reset(self) == [self EXCEPT !.errors = ResetErrors(@)]

\* self.lexer.set_contents(name, contents)
parse_set_contents(self, name, contents) ==
  [self EXCEPT !.lexer = [contents |-> contents,
                          lineno |-> set_contents_lineno(@.lineno),
                          last |-> 0, file_name |-> name]]

\* ret = self.yacc.parse(lexer=self.lexer, tracking=True), with the except
\* clause: the lexer is read as it is, the rules append to self.errors as it
\* is.  r is what yacc.parse ends in, self the instance it leaves.
parse_run(self) ==
  CHOOSE x \in
    { [r |-> r, self |-> parse_end(self, c, r).self] :
        c \in { [contents |-> self.lexer.contents,
                 toks |-> Lex(self.lexer.contents, self.lexer.lineno),
                 file |-> self.lexer.file_name,
                 options |-> self.options, extensions |-> self.extensions] },
        r \in { yacc_parse(
                  [contents |-> self.lexer.contents,
                   toks |-> Lex(self.lexer.contents, self.lexer.lineno),
                   file |-> self.lexer.file_name,
                   options |-> self.options, extensions |-> self.extensions],
                  self.errors) } } : TRUE

\* if self.errors: raise IdlSyntaxError(self.errors);
\* return types.Results(types=ret).  An AttributeError out of yacc.parse has
\* left the call; after a SyntaxError out of yacc.parse ret is unbound, and
\* reading it raises UnboundLocalError.
parse_return(self, r) ==
  IF r.st = "crash" THEN Outcome("AttributeError", self.lexer.file_name, <<>>, FALSE)
  ELSE IF self.errors # <<>> THEN IdlSyntaxError(self.errors)
  ELSE IF r.st = "lex"
  THEN Outcome("UnboundLocalError", self.lexer.file_name, <<>>, FALSE)
  ELSE IF r.st = "halt" THEN Outcome("Results", self.lexer.file_name, <<>>, TRUE)
  ELSE Outcome("Results", self.lexer.file_name, r.stk[1].value, FALSE)

\* IdlParser.parse once the lexer has the contents.
parse_yacc(self, c) == parse_end(self, c, yacc_parse(c, ResetErrors(self.errors)))

\* IdlParser.parse(name, contents) on the instance self: the outcome of the
\* call and the instance it leaves.
parse(self, name, contents) ==
  parse_yacc(self, [contents |-> contents,
                    toks |-> Lex(contents, set_contents_lineno(self.lexer.lineno)), file |-> name,
                    options |-> self.options, extensions |-> self.extensions])

\* IdlParser.__init__: [raised |-> TRUE] for the RuntimeError raised when two
\* descriptors share a name and a kind; options None means Options.all().
NameKinds(extensions) ==
  Flatten([k \in 1..Len(extensions) |->
             [j \in 1..Len(extensions[k].kinds) |->
                <<extensions[k].name, extensions[k].kinds[j]>>]])

IdlParser(options, extensions) ==
  IF Cardinality({ NameKinds(extensions)[k] : k \in 1..Len(NameKinds(extensions)) })
       # Len(NameKinds(extensions))
  THEN [raised |-> TRUE, self |-> <<>>]
  ELSE [raised |-> FALSE,
        self |-> << [options |-> IF options = <<>> THEN Options_all
                                 ELSE options[1],
                     extensions |-> extensions,
                     errors |-> <<>>,
                     lexer |-> [contents |-> <<>>, lineno |-> 1,
                                last |-> 0, file_name |-> "None"]] >>]

\* ------------------------------------------------------ registered descriptors
Everywhere == ExtensionLocation
Ext(name, kinds, init) ==
  [name |-> name, kinds |-> kinds, init |-> init, locations |-> Everywhere]

\* The descriptors of tests/test_common.py and tests/extensions_test.py.
TestExtensions ==
  << Ext("NoArgs", <<NO_ARGS>>, "default"),
     Ext("ArgList", <<ARG_LIST>>, "default"),
     Ext("NamedArgList", <<NAMED_ARG_LIST>>, "default"),
     Ext("Ident", <<IDENT>>, "default"),
     Ext("IdentList", <<IDENT_LIST>>, "default"),
     Ext("My", <<NO_ARGS, IDENT>>, "default"),
     Ext("Boom", <<NO_ARGS>>, "raises"),
     [Ext("Type", <<NO_ARGS>>, "default") EXCEPT !.locations = {"type"}],
     [Ext("Member", <<NO_ARGS>>, "default") EXCEPT
        !.locations = {"member", "mixin member", "namespace member",
                       "dictionary member"}] >>

\* Two descriptors that share a name and accept different kinds.
SplitExtensions ==
  TestExtensions \o << Ext("Dup", <<NO_ARGS>>, "default"),
                       Ext("Dup", <<IDENT>>, "default") >>

\* Two descriptors that share a name and a kind.
ClashingExtensions ==
  << Ext("NoArgs", <<NO_ARGS>>, "default"), Ext("NoArgs", <<NO_ARGS>>, "default") >>

Registries == { <<>>, TestExtensions, SplitExtensions, ClashingExtensions }

\* The feature names a caller may pass to Options: the known ones, a name
\* with the dictionary- prefix that is not a feature, and an unrelated name.
FeatureNames ==
  _all_features \cup { <<"dictionary", "-", "inherit">>, <<"interface">> }

\* ------------------------------------------------------------ source texts
Words(ws) == ws
kwDictionary == Wd("dictionary", 10)
kwLong == Wd("long", 4)
kwRequired == Wd("required", 8)
kwOptional == Wd("optional", 8)
Ellipsis == Lx("ell", "...", 3)
One == IntLit("1", 1, 1)

\* dictionary <name> {<body>};
Dict(name, body) ==
  <<kwDictionary, Sp, Wd(name, 3), Sp, Pn("{")>> \o body \o <<Pn("}"), Pn(";")>>

\* Texts joined by newlines.
RECURSIVE Lines(_)
Lines(ts) ==
  IF Len(ts) = 1 THEN ts[1] ELSE ts[1] \o <<Nl>> \o Lines(Tail(ts))

\* Member lists that the grammar accepts.
GoodBodies ==
  { <<>>,
    <<kwLong, Sp, Wd("x", 1), Pn(";")>>,
    <<kwRequired, Sp, kwLong, Sp, Wd("x", 1), Pn(";")>>,
    <<kwLong, Sp, Wd("x", 1), Pn("="), One, Pn(";")>>,
    <<kwRequired, Sp, kwLong, Sp, Wd("x", 1), Pn("="), One, Pn(";")>> }

\* Member lists in which the parser meets a token it cannot accept, outside
\* every extension list.
BadBodies ==
  { <<Sp, Wd("x", 1), Sp>>,
    <<kwRequired, Sp, kwLong, Sp, Wd("x", 1), Pn(";"), Wd("y", 1)>>,
    <<kwLong, Sp, Wd("x", 1), Sp, Wd("y", 1), Pn(";")>> }

\* ------------------------------------------- idl_tokenizer / idl_parser
\* IdlTokenType values that are one character long.
IdlTokenChars == {"{", "}", "(", ")", ",", ";", "?", "<", ">", "[", "]", "="}

\* IdlTokenizer.peek with _set_peek: the type of the token a lexeme gives;
\* "raise" where peek raises a SyntaxError.
peek(x) ==
  CASE x.c = "lit" -> IF x.v \in IdlTokenChars THEN x.v ELSE "raise"
    [] x.c = "ell" -> "ELLIPSIS"
    [] x.c = "int" -> "NUMBER_LITERAL"
    [] x.c = "str" -> "STRING_LITERAL"
    [] x.c = "word" -> IF x.v = "dictionary" THEN "DICTIONARY"
                       ELSE IF x.v = "optional" THEN "OPTIONAL"
                       ELSE IF x.v \in {"NaN", "Infinity"} THEN "NUMBER_LITERAL"
                       ELSE "IDENTIFIER"
    [] OTHER -> "raise"

\* The tokens of the text as the reader meets them: whitespace and comments
\* are skipped, and a lexeme at which peek raises ends the sequence.
IdlTokens(contents) ==
  LET tok(j) == [num |-> contents[j].num,
                 type |-> IF contents[j].c \in {"ws", "nl", "com", "doc"}
                          THEN "skip" ELSE peek(contents[j]), value |-> contents[j].v]
      Returned(t) == t.type # "skip"
      Cut(toks) ==
        IF \E k \in 1..Len(toks) : toks[k].type = "raise"
        THEN SubSeq(toks, 1, SetMin({ k \in 1..Len(toks) : toks[k].type = "raise" }))
        ELSE toks
  IN  Cut(SelectSeq([j \in 1..Len(contents) |-> tok(j)], Returned))

\* idl_tokenizer.IdlTokenizer(filename, data) with the locals of
\* read_arg_list: i indexes the next token, v is the value the last call
\* returned, raised holds the message of the SyntaxError raised (<<>> while
\* none is).
IdlTokenizer(contents) ==
  [v |-> <<>>, toks |-> IdlTokens(contents), raised |-> <<>>, i |-> 1,
   optional |-> FALSE, default |-> <<>>, variadic |-> FALSE, type_ |-> <<>>,
   arg_name |-> "", ret |-> <<>>]

Raised(r) == r.raised # <<>>

\* The type of the token peek returns, "None" at the end of the input.
peek_type(r) ==
  IF r.i > Len(r.toks) THEN "None" ELSE r.toks[r.i].type

\* IdlTokenizer.raise_error
raise_error(r, message) ==
  IF Raised(r) THEN r ELSE [r EXCEPT !.raised = <<message>>]

\* IdlTokenizer.peek raises at a character that starts no token.
Guard(r) ==
  IF ~Raised(r) /\ peek_type(r) = "raise"
  THEN raise_error(r, "Unexpected character") ELSE r

\* IdlTokenizer.next
next(r) == [r EXCEPT !.i = r.i + 1, !.v = r.toks[r.i]]

\* IdlTokenizer.expect
expect(r, token_type) ==
  IF Raised(Guard(r)) THEN Guard(r)
  ELSE IF peek_type(r) = "None" THEN raise_error(r, "Unexpected EOF")
  ELSE IF peek_type(r) # token_type THEN raise_error(r, "Expecting")
  ELSE next(r)

\* IdlTokenizer.peek_is_type, on a reader whose peek does not raise.
peek_is_type(r, token_type) == peek_type(r) = token_type

\* IdlTokenizer.read_if_type
read_if_type(r, token_type) ==
  IF Raised(Guard(r)) THEN Guard(r)
  ELSE IF peek_type(r) = token_type THEN [next(r) EXCEPT !.v = TRUE]
  ELSE [r EXCEPT !.v = FALSE]

\* The assignment of the value returned last to the local named var.
Assign(r, var) == IF Raised(r) THEN r ELSE [r EXCEPT ![var] = r.v]

\* idl_parser.IdlParser.read_type.  The locals are n.v (the token of
\* type_name), e.v (element_type) and q.v (nullable).
RECURSIVE read_type(_)
read_type(r) ==
  LET n == expect(r, "IDENTIFIER")
      t == read_if_type(n, "<")
      e == IF Raised(t) THEN t
           ELSE IF ~t.v THEN [t EXCEPT !.v = <<>>]
           ELSE IF n.v.value # "sequence"
           THEN raise_error(t, "Can only use templates (<>) on sequence<T>.")
           ELSE [expect(read_type(t), ">") EXCEPT !.v = <<read_type(t).v>>]
      q == read_if_type(e, "?")
  IN  IF Raised(q) THEN q
      ELSE [q EXCEPT !.v = IdlType(<<n.v.value>>, q.v, e.v)]

\* idl_parser.IdlParser.read_const(True)
read_const(r) ==
  IF Raised(Guard(r)) THEN Guard(r)
  ELSE CASE peek_type(r) = "IDENTIFIER" ->
              IF r.toks[r.i].value \in {"true", "false", "null"}
              THEN [next(r) EXCEPT !.v = <<r.toks[r.i].value>>]
              ELSE raise_error(r, "Invalid constant value")
         [] peek_type(r) = "NUMBER_LITERAL" ->
              [next(r) EXCEPT !.v = <<r.toks[r.i].num>>]
         [] peek_type(r) = "[" -> [expect(next(r), "]") EXCEPT !.v = <<"[]">>]
         [] peek_type(r) = "STRING_LITERAL" ->
              [next(r) EXCEPT !.v = <<r.toks[r.i].value>>]
         [] OTHER -> raise_error(r, "Expecting a constant")

\* A reader that takes '...' after the type of an optional argument too.
read_variadic_unchecked(r) ==
  IF Raised(Guard(r)) THEN Guard(r)
  ELSE Assign(read_if_type(r, "ELLIPSIS"), "variadic")

\* read_arg_list after read_type: the test for '...'.
read_variadic(r) ==
  IF Raised(Guard(r)) THEN Guard(r)
  ELSE IF r.optional
  THEN IF peek_is_type(r, "ELLIPSIS")
       THEN raise_error(r, "Cannot use ... with optional arguments")
       ELSE [r EXCEPT !.variadic = FALSE]
  ELSE Assign(read_if_type(r, "ELLIPSIS"), "variadic")

\* read_arg_list after arg_name: the default value and the tests of a
\* non-optional argument.
read_default(r) ==
  IF Raised(Guard(r)) THEN Guard(r)
  ELSE IF r.optional
  THEN IF peek_is_type(r, "=")
       THEN Assign(read_const(read_if_type(r, "=")), "default")
       ELSE [r EXCEPT !.default = <<>>]
  ELSE IF peek_is_type(r, "=")
  THEN raise_error(r, "Cannot have default values with non-optional argument")
  ELSE IF \E k \in 1..Len(r.ret) : r.ret[k].optional
  THEN raise_error(r, "Optional arguments must appear last")
  ELSE [r EXCEPT !.default = <<>>]

\* ret.append(IdlArgument(...))
append_argument(r) ==
  IF Raised(r) THEN r
  ELSE [r EXCEPT !.ret = Append(@, Argument(r.arg_name.value, r.type_,
                                            r.optional, r.variadic, r.default))]

\* One turn of the loop of read_arg_list, up to ret.append.
read_argument(r) ==
  append_argument(
    read_default(
      Assign(expect(
               read_variadic(
                 Assign(read_type(
                          Assign(read_if_type(r, "OPTIONAL"), "optional")),
                        "type_")),
               "IDENTIFIER"), "arg_name")))

\* The loop of read_arg_list.
RECURSIVE read_arguments(_)
read_arguments(r0) ==
  LET r == Guard(read_argument(r0))
  IN  IF Raised(r) THEN r
      ELSE IF peek_is_type(r, ",")
      THEN IF r.variadic
           THEN raise_error(r, "An argument with ... must appear last")
           ELSE read_arguments(expect(r, ","))
      ELSE r

\* idl_parser.IdlParser.read_arg_list on the text: raised is <<>> and v the
\* arguments read, or raised holds the message of the SyntaxError.
read_arg_list(contents) ==
  LET b == Guard(expect(IdlTokenizer(contents), "("))
      a == IF Raised(b) \/ peek_is_type(b, ")") THEN b ELSE read_arguments(b)
      z == expect(a, ")")
  IN  [v |-> IF Raised(z) THEN <<>> ELSE z.ret, raised |-> z.raised]

\* read_arg_list called by read_extension, on the reader it is at.
read_args(r) ==
  LET b == Guard(expect([r EXCEPT !.ret = <<>>], "("))
      a == IF Raised(b) \/ peek_is_type(b, ")") THEN b ELSE read_arguments(b)
  IN  expect(a, ")")

\* The descriptors of tests/idl_parser_test.py (subclasses of IdlExtension):
\* each has one kind.  The last one is the test's LocationExtension, under
\* the name Member.
IdlExtension(name, kind, locations) ==
  [name |-> name, kind |-> kind, locations |-> locations]
IdlExtensions ==
  << IdlExtension("NoArgs", NO_ARGS, ExtensionLocation),
     IdlExtension("ArgList", ARG_LIST, ExtensionLocation),
     IdlExtension("NamedArgList", NAMED_ARG_LIST, ExtensionLocation),
     IdlExtension("Ident", IDENT, ExtensionLocation),
     IdlExtension("IdentList", IDENT_LIST, ExtensionLocation),
     IdlExtension("Member", NO_ARGS, {"member"}) >>

\* idl_parser.IdlParser._check_extension_kind
_check_extension_kind(r, extension, actual) ==
  IF actual = extension.kind THEN r
  ELSE raise_error(r, "should have but was given")

\* The loop of read_extension over the names of '=(A, B)'; ret holds them.
RECURSIVE read_names(_)
read_names(r0) ==
  LET More(r, c) ==
        IF Raised(r) THEN r
        ELSE IF Raised(c) THEN c
        ELSE IF c.v THEN read_names([c EXCEPT !.ret = Append(@, r.v.value)])
        ELSE [c EXCEPT !.ret = Append(@, r.v.value)]
      Name(r) == More(r, read_if_type(r, ","))
  IN  Name(expect(r0, "IDENTIFIER"))

\* idl_parser.IdlParser.read_extension: v is the instance constructed, with
\* the keyword arguments it was given.  The reader n is the one that has
\* read the name; matched[0] is IdlExtensions[Matched(n)].
read_extension(r0, locations) ==
  LET Matched(n) ==
        CHOOSE k \in 0..Len(IdlExtensions) :
          \/ k > 0 /\ IdlExtensions[k].name = n.v.value
          \/ k = 0 /\ \A j \in 1..Len(IdlExtensions) :
                        IdlExtensions[j].name # n.v.value
      Make(r, n, kwargs) ==
        IF Raised(r) THEN r
        ELSE [r EXCEPT !.v = [cls |-> Matched(n), name |-> n.v.value,
                              kwargs |-> kwargs]]
      Check(r, n, actual) ==
        _check_extension_kind(r, IdlExtensions[Matched(n)], actual)
      WithArgs(a, n) == Make(a, n, ExtArgs({"args"}, "", "", a.ret, <<>>))
      WithNames(a, n) == Make(a, n, ExtArgs({"args"}, "", "", <<>>, a.ret))
      WithNamed(a, n, id) ==
        Make(a, n, ExtArgs({"argsName", "args"}, "", id.v.value, a.ret, <<>>))
      AfterIdent(id, n) ==
        IF Raised(Guard(id)) THEN Guard(id)
        ELSE IF peek_is_type(id, "(")
        THEN CHOOSE x \in { WithNamed(a, n, id) :
                             a \in {read_args(Check(id, n, NAMED_ARG_LIST))} } :
               TRUE
        ELSE IF IdlExtensions[Matched(n)].kind = IDENT_LIST
        THEN Make(id, n, ExtArgs({"args"}, "", "", <<>>, <<id.v.value>>))
        ELSE Make(Check(id, n, IDENT), n,
                  ExtArgs({"arg"}, id.v.value, "", <<>>, <<>>))
      AfterPar(par, n) ==
        IF Raised(par) THEN par
        ELSE IF par.v
        THEN CHOOSE x \in { WithNames(a, n) :
                             a \in {expect(read_names([Check(par, n, IDENT_LIST)
                                                         EXCEPT !.ret = <<>>]),
                                            ")")} } : TRUE
        ELSE AfterIdent(expect(par, "IDENTIFIER"), n)
      AfterEq(eq, n) ==
        IF eq.v THEN AfterPar(read_if_type(eq, "("), n)
        ELSE Make(Check(eq, n, NO_ARGS), n, ExtArgs({}, "", "", <<>>, <<>>))
      AfterName(n) ==
        IF Raised(n) THEN n
        ELSE IF \/ Matched(n) = 0
                \/ IdlExtensions[Matched(n)].locations \cap locations = {}
        THEN raise_error(n, "is not a valid extension in this context")
        ELSE IF Raised(Guard(n)) THEN Guard(n)
        ELSE IF peek_is_type(n, "(")
        THEN CHOOSE x \in { WithArgs(a, n) :
                             a \in {read_args(Check(n, n, ARG_LIST))} } : TRUE
        ELSE AfterEq(read_if_type(n, "="), n)
  IN  AfterName(expect(r0, "IDENTIFIER"))

\* The loop of read_extensions.
RECURSIVE read_extension_items(_, _, _)
read_extension_items(r0, locations, extensions) ==
  LET More(e, c) ==
        IF Raised(e) THEN e
        ELSE IF Raised(c) THEN c
        ELSE IF c.v
        THEN read_extension_items(c, locations, Append(extensions, e.v))
        ELSE [c EXCEPT !.ret = Append(extensions, e.v)]
      Item(e) == More(e, read_if_type(e, ","))
  IN  CHOOSE x \in { Item(e) : e \in {read_extension(r0, locations)} } : TRUE

\* idl_parser.IdlParser.read_extensions on the text: raised is <<>> and v
\* the instances, or raised holds the message of the SyntaxError.
read_extensions(contents, locations) ==
  CHOOSE x \in
    { [v |-> IF Raised(z) THEN <<>> ELSE z.ret, raised |-> z.raised] :
        z \in {expect(read_extension_items(expect(IdlTokenizer(contents), "["),
                                           locations, <<>>), "]")} } : TRUE

\* idl_parser.IdlParser.read_dictionary: the loop over the members.  The doc
\* of a member is the doc of its first token and is left to the tokenizer.
RECURSIVE read_attributes(_)
read_attributes(r) ==
  IF Raised(Guard(r)) THEN Guard(r)
  ELSE IF peek_type(r) \in {"None", "}"} THEN r
  ELSE CHOOSE x \in
         { IF Raised(s) THEN s
           ELSE read_attributes(
                  [s EXCEPT !.ret = @ \o <<[type |-> s.type_[1], name |-> s.arg_name.value]>>]) :
             s \in {expect(Assign(expect(Assign([read_type(r) EXCEPT !.v = <<@>>],
                                                "type_"),
                                         "IDENTIFIER"), "arg_name"), ";")} } : TRUE

\* idl_parser.IdlParser.read_dictionary
read_dictionary(r) ==
  CHOOSE x \in
    { CHOOSE y \in
        { IF Raised(z) THEN z
          ELSE [z EXCEPT !.v = [name |-> name.v.value, attributes |-> z.ret]] :
            z \in {expect(expect(read_attributes(expect(name, "{")), "}"), ";")} } :
        TRUE :
        name \in {expect(expect([r EXCEPT !.ret = <<>>], "DICTIONARY"),
                         "IDENTIFIER")} } : TRUE

\* idl_parser.IdlParser.parse_file: the loop over the definitions, types
\* being the list read so far.
RECURSIVE read_definitions(_, _)
read_definitions(r, types) ==
  IF Raised(Guard(r)) THEN [v |-> <<>>, raised |-> Guard(r).raised]
  ELSE IF peek_type(r) = "None" THEN [v |-> types, raised |-> <<>>]
  ELSE IF ~peek_is_type(r, "DICTIONARY")
  THEN [v |-> <<>>, raised |-> <<"Invalid top-level token">>]
  ELSE CHOOSE x \in
         { IF Raised(d) THEN [v |-> <<>>, raised |-> d.raised]
           ELSE read_definitions(d, types \o <<d.v>>) :
             d \in {read_dictionary(r)} } : TRUE

\* idl_parser.IdlParser.parse_file
parse_file(body) == read_definitions(IdlTokenizer(body), <<>>)

\* ------------------------------------------- idl_tokenizer.StringReader
\* A string is the sequence of its characters.  Python's data[a:b]: a
\* negative index counts from the end, and both are clamped to the string.
Clamp(i, n) ==
  IF i < 0 THEN (IF i + n < 0 THEN 0 ELSE i + n) ELSE IF i > n THEN n ELSE i
Slice(data, a, b) ==
  IF Clamp(b, Len(data)) <= Clamp(a, Len(data)) THEN <<>>
  ELSE SubSeq(data, Clamp(a, Len(data)) + 1, Clamp(b, Len(data)))

\* str.count(ch), str.rindex(ch) (of a string that holds ch) and
\* str.find(substr, start), -1 where there is none; indices start at 0.
str_count(s, ch) == Cardinality({ i \in 1..Len(s) : s[i] = ch })
str_rindex(s, ch) == SetMax({ i \in 1..Len(s) : s[i] = ch }) - 1
str_find(s, substr, start) ==
  IF \E i \in start..(Len(s) - Len(substr)) : SubSeq(s, i + 1, i + Len(substr)) = substr
  THEN SetMin({ i \in start..(Len(s) - Len(substr)) :
                  SubSeq(s, i + 1, i + Len(substr)) = substr })
  ELSE -1

\* StringReader.__init__
StringReader(data) == [line |-> 1, col |-> 1, _data |-> data, _pos |-> 0]

\* StringReader.eof
StringReader_eof(self) == self._pos >= Len(self._data)

\* StringReader.peek
StringReader_peek(self, count) ==
  Slice(self._data, self._pos, self._pos + count)

\* A read that adds the characters to col whether or not a line ends in them.
StringReader_read_same_line(self, count) ==
  [self EXCEPT !._pos = @ + Len(StringReader_peek(self, count)),
               !.line = @ + str_count(StringReader_peek(self, count), "\n"),
               !.col = @ + Len(StringReader_peek(self, count))]

\* StringReader.read: the reader after the call (the value returned is
\* StringReader_peek(self, count)).
StringReader_read(self, count) ==
  [self EXCEPT !._pos = @ + Len(StringReader_peek(self, count)),
               !.line = @ + str_count(StringReader_peek(self, count), "\n"),
               !.col = IF str_count(StringReader_peek(self, count), "\n") > 0
                       THEN Len(StringReader_peek(self, count))
                              - str_rindex(StringReader_peek(self, count), "\n")
                       ELSE @ + Len(StringReader_peek(self, count))]

\* StringReader.peek_until
peek_until(self, substr, skip) ==
  IF str_find(self._data, substr, self._pos + skip) < 0
  THEN Slice(self._data, self._pos, Len(self._data) + Len(substr))
  ELSE Slice(self._data, self._pos,
             str_find(self._data, substr, self._pos + skip) + Len(substr))

\* StringReader.peek_in_character_set: count after the loop, from count on.
RECURSIVE character_set_count(_, _, _)
character_set_count(self, choices, count) ==
  IF self._pos + count < Len(self._data)
     /\ self._data[self._pos + count + 1] \in choices
  THEN character_set_count(self, choices, count + 1)
  ELSE count
peek_in_character_set(self, choices, skip) ==
  Slice(self._data, self._pos,
        self._pos + character_set_count(self, choices, skip))

\* The strings a StringReader is made on, and the counts it is read with.
MaxData == 4
DataChars == {"a", " ", "\n"}
Datas == UNION { [1..n -> DataChars] : n \in 0..MaxData }
MaxCount == 3
Counts == -1..MaxCount

\* ------------------------------------------- idl_tokenizer.IdlTokenizer
\* The tokenizer on the characters of the text.  A token is IdlToken(type,
\* value, length, doc): value holds the characters of the token, num the
\* value of a number literal written in digits (0 otherwise), doc is <<>>
\* for None and <<d>> for the string d.  The type of a one-character token
\* is the character.
string_whitespace == {" ", "\t", "\n", "\r"}
string_digits == {"0", "1", "2", "3", "4", "5", "6", "7", "8", "9"}
string_ascii_letters ==
  { "a", "b", "c", "d", "e", "f", "g", "h", "i", "j", "k", "l", "m",
    "n", "o", "p", "q", "r", "s", "t", "u", "v", "w", "x", "y", "z",
    "A", "B", "C", "D", "E", "F", "G", "H", "I", "J", "K", "L", "M",
    "N", "O", "P", "Q", "R", "S", "T", "U", "V", "W", "X", "Y", "Z" }

\* A call on the tokenizer: the tokenizer after it, the value returned
\* (<<>> for None) and the SyntaxError raised (<<>> for none).
Returns(self, ret) == [raised |-> <<>>, self |-> self, ret |-> ret]

\* IdlTokenizer.raise_error
IdlTokenizer_raise_error(self, message) ==
  [raised |-> <<[msg |-> message, line |-> self._reader.line,
                 col |-> self._reader.col]>>,
   self |-> self, ret |-> <<>>]

\* IdlTokenizer.__init__
IdlTokenizer_new(data) ==
  [_reader |-> StringReader(data), _peek |-> <<>>, _doc |-> <<>>]

EndsWith(s, suffix) ==
  Len(suffix) <= Len(s) /\ SubSeq(s, Len(s) - Len(suffix) + 1, Len(s)) = suffix

\* A _skip_whitespace_and_comments whose '/* */' comment empties self._doc.
RECURSIVE _skip_whitespace_and_comments_clearing(_, _)
_skip_whitespace_and_comments_clearing(self, extra) ==
  LET ch == StringReader_peek(self._reader, 1)
      comment == peek_until(self._reader, <<"\n">>, 0)
      doc == peek_until(self._reader, <<"*", "/">>, 2)
      Read(count) == [self EXCEPT !._reader = StringReader_read(@, count)]
  IN  IF ch = <<>> THEN Returns(self, <<>>)
      ELSE IF ch[1] \in string_whitespace
      THEN _skip_whitespace_and_comments_clearing(
             Read(1), IF ch[1] = "\n" THEN <<>> ELSE extra \o ch)
      ELSE IF ch[1] # "/" THEN Returns(self, <<>>)
      ELSE IF StringReader_peek(self._reader, 2) = <<"/", "/">>
      THEN _skip_whitespace_and_comments_clearing(Read(Len(comment)), <<>>)
      ELSE IF StringReader_peek(self._reader, 2) # <<"/", "*">>
      THEN Returns(self, <<>>)
      ELSE IF doc = <<"/", "*", "/">> \/ ~EndsWith(doc, <<"*", "/">>)
      THEN IdlTokenizer_raise_error(self, "Unexpected EOF in comment")
      ELSE IF doc # <<"/", "*", "*", "/">> /\ Slice(doc, 0, 3) = <<"/", "*", "*">>
      THEN _skip_whitespace_and_comments_clearing(
             [Read(Len(doc)) EXCEPT !._doc = <<extra \o doc>>], <<>>)
      ELSE _skip_whitespace_and_comments_clearing(
             [Read(Len(doc)) EXCEPT !._doc = <<>>], <<>>)

\* IdlTokenizer._skip_whitespace_and_comments, from a turn of its loop on.
RECURSIVE _skip_whitespace_and_comments(_, _)
_skip_whitespace_and_comments(self, extra) ==
  LET ch == StringReader_peek(self._reader, 1)
      comment == peek_until(self._reader, <<"\n">>, 0)
      doc == peek_until(self._reader, <<"*", "/">>, 2)
      Read(count) == [self EXCEPT !._reader = StringReader_read(@, count)]
  IN  IF ch = <<>> THEN Returns(self, <<>>)
      ELSE IF ch[1] \in string_whitespace
      THEN _skip_whitespace_and_comments(
             Read(1), IF ch[1] = "\n" THEN <<>> ELSE extra \o ch)
      ELSE IF ch[1] # "/" THEN Returns(self, <<>>)
      ELSE IF StringReader_peek(self._reader, 2) = <<"/", "/">>
      THEN _skip_whitespace_and_comments(Read(Len(comment)), <<>>)
      ELSE IF StringReader_peek(self._reader, 2) # <<"/", "*">>
      THEN Returns(self, <<>>)
      ELSE IF doc = <<"/", "*", "/">> \/ ~EndsWith(doc, <<"*", "/">>)
      THEN IdlTokenizer_raise_error(self, "Unexpected EOF in comment")
      ELSE IF doc # <<"/", "*", "*", "/">> /\ Slice(doc, 0, 3) = <<"/", "*", "*">>
      THEN _skip_whitespace_and_comments(
             [Read(Len(doc)) EXCEPT !._doc = <<extra \o doc>>], <<>>)
      ELSE _skip_whitespace_and_comments(Read(Len(doc)), <<>>)

\* IdlTokenizer._peek_token
_peek_token(self, allow_dot, skip) ==
  peek_in_character_set(
    self._reader,
    {"-", "_"} \cup string_ascii_letters \cup string_digits
      \cup (IF allow_dot THEN {"."} ELSE {}),
    skip)

\* The type _set_peek finds for a value when it is given none.
TypeOfValue(value) ==
  IF Len(value) = 1 /\ value[1] \in IdlTokenChars THEN value[1]
  ELSE IF value = <<".", ".", ".">> THEN "ELLIPSIS"
  ELSE IF value = <<"d", "i", "c", "t", "i", "o", "n", "a", "r", "y">>
  THEN "DICTIONARY"
  ELSE IF value = <<"o", "p", "t", "i", "o", "n", "a", "l">> THEN "OPTIONAL"
  ELSE "IDENTIFIER"

\* A number is the pair <<m, e>> for m * 10^e, m being no multiple of ten
\* (<<0, 0>> for zero): two literals of one value give one pair.
RECURSIVE Number(_, _)
Number(m, e) ==
  IF m = 0 THEN <<0, 0>>
  ELSE IF m % 10 = 0 THEN Number(m \div 10, e + 1)
  ELSE <<m, e>>
NoNumber == <<0, 0>>

\* A _set_peek that leaves self._doc as it is.
_set_peek_keeps_doc(self, value, num, length, type_) ==
  Returns([self EXCEPT !._peek = <<[num |-> num, type |-> type_, value |-> value,
                                    doc |-> self._doc, length |-> length]>>],
          <<>>)

\* IdlTokenizer._set_peek
_set_peek(self, value, num, length, type_) ==
  Returns([self EXCEPT !._peek = <<[num |-> num, type |-> type_, value |-> value,
                                    doc |-> self._doc, length |-> length]>>,
                       !._doc = <<>>],
          <<>>)

\* IdlTokenizer._set_peek_string
_set_peek_string(self) ==
  LET word == peek_until(self._reader, <<"\"">>, 1)
  IN  IF ~EndsWith(word, <<"\"">>) \/ word = <<"\"">>
      THEN IdlTokenizer_raise_error(self, "Unexpected EOF in string literal")
      ELSE IF \E i \in 1..Len(word) : word[i] = "\n"
      THEN IdlTokenizer_raise_error(self, "Newline in string literal")
      ELSE _set_peek(self, Slice(word, 1, -1), NoNumber, Len(word), "STRING_LITERAL")

\* The digits of a base and their values.
HexLetters == <<"a", "b", "c", "d", "e", "f">>
HexCapitals == <<"A", "B", "C", "D", "E", "F">>
DigitValue(d) ==
  IF d \in string_digits THEN CHOOSE n \in 0..9 : ToString(n) = d
  ELSE CHOOSE n \in 10..15 : HexLetters[n - 9] = d \/ HexCapitals[n - 9] = d
DigitsOf(base) ==
  { d \in string_digits \cup { HexLetters[i] : i \in 1..6 }
                        \cup { HexCapitals[i] : i \in 1..6 } :
      DigitValue(d) < base }
IsDigits(word, base) ==
  word # <<>> /\ \A i \in 1..Len(word) : word[i] \in DigitsOf(base)
RECURSIVE DigitsValue(_, _)
DigitsValue(word, base) ==
  IF word = <<>> THEN 0
  ELSE DigitsValue(SubSeq(word, 1, Len(word) - 1), base) * base
         + DigitValue(word[Len(word)])
StartsWith(word, prefix) ==
  Len(prefix) <= Len(word) /\ SubSeq(word, 1, Len(prefix)) = prefix
Signed(word) == word # <<>> /\ word[1] \in {"-", "+"}
Unsigned(word) == IF Signed(word) THEN Tail(word) ELSE word
Sign(word) == IF word # <<>> /\ word[1] = "-" THEN -1 ELSE 1

\* int(word, base) for base 8, 10 and 16 on a word without '_' and spaces:
\* a sign, the prefix of the base ('0x', '0X'; '0o', '0O') or none, and one
\* digit of the base at least; <<>> for ValueError.
int(word, base) ==
  LET prefixes == IF base = 16 THEN {<<"0", "x">>, <<"0", "X">>}
                  ELSE IF base = 8 THEN {<<"0", "o">>, <<"0", "O">>}
                  ELSE {}
      body == Unsigned(word)
      digits == IF \E p \in prefixes : StartsWith(body, p)
                THEN SubSeq(body, 3, Len(body)) ELSE body
  IN  IF IsDigits(digits, base)
      THEN <<Number(Sign(word) * DigitsValue(digits, base), 0)>>
      ELSE <<>>

\* float(word) on a word without '_', spaces and the letters of 'inf' and
\* 'nan': a sign, digits with a '.' among them or not, and an exponent
\* ('e' or 'E', a sign, digits) or none; <<>> for ValueError.
float(word) ==
  LET body == Unsigned(word)
      es == { i \in 1..Len(body) : body[i] \in {"e", "E"} }
      mantissa == IF es = {} THEN body ELSE SubSeq(body, 1, SetMin(es) - 1)
      exponent == IF es = {} THEN <<>>
                  ELSE SubSeq(body, SetMin(es) + 1, Len(body))
      dots == { i \in 1..Len(mantissa) : mantissa[i] = "." }
      whole == IF dots = {} THEN mantissa
               ELSE SubSeq(mantissa, 1, SetMin(dots) - 1)
      fraction == IF dots = {} THEN <<>>
                  ELSE SubSeq(mantissa, SetMin(dots) + 1, Len(mantissa))
  IN  IF /\ IsDigits(whole \o fraction, 10)
         /\ es # {} => IsDigits(Unsigned(exponent), 10)
      THEN <<Number(Sign(word) * DigitsValue(whole \o fraction, 10),
                    Sign(exponent) * DigitsValue(Unsigned(exponent), 10)
                      - Len(fraction))>>
      ELSE <<>>

\* IdlTokenizer._set_peek_number
_set_peek_number(self) ==
  LET word == _peek_token(self, TRUE, 0)
      value == IF \E p \in {<<"0", "x">>, <<"0", "X">>, <<"-", "0", "x">>,
                            <<"-", "0", "X">>} : StartsWith(word, p)
               THEN int(word, 16)
               ELSE IF StartsWith(word, <<"0">>) THEN int(word, 8)
               ELSE float(word)
  IN  IF word = <<"-", "I", "n", "f", "i", "n", "i", "t", "y">>
      THEN _set_peek(self, word, NoNumber, 9, "NUMBER_LITERAL")
      ELSE IF value = <<>>
      THEN IdlTokenizer_raise_error(self, "Invalid number format")
      ELSE _set_peek(self, word, value[1], Len(word), "NUMBER_LITERAL")

\* IdlTokenizer.peek once whitespace and comments are skipped.
peek_after_skip(s) ==
  LET self == s.self
      ch == StringReader_peek(self._reader, 1)
      ident == _peek_token(self, FALSE, 0)
  IN  IF s.raised # <<>> THEN s
      ELSE IF ch = <<>> THEN Returns(self, <<>>)
      ELSE IF ch[1] \in IdlTokenChars THEN _set_peek(self, ch, NoNumber, 1, ch[1])
      ELSE IF ch[1] = "\"" THEN _set_peek_string(self)
      ELSE IF ch[1] = "." /\ StringReader_peek(self._reader, 3) = <<".", ".", ".">>
      THEN _set_peek(self, <<".", ".", ".">>, NoNumber, 3, "ELLIPSIS")
      ELSE IF ch[1] \in string_digits \cup {"-", "."} THEN _set_peek_number(self)
      ELSE IF ch[1] = "_" \/ ch[1] \in string_ascii_letters
      THEN IF ident = <<"N", "a", "N">>
           THEN _set_peek(self, ident, NoNumber, 3, "NUMBER_LITERAL")
           ELSE IF ident = <<"I", "n", "f", "i", "n", "i", "t", "y">>
           THEN _set_peek(self, ident, NoNumber, 8, "NUMBER_LITERAL")
           ELSE _set_peek(self, ident, NoNumber, Len(ident), TypeOfValue(ident))
      ELSE IdlTokenizer_raise_error(self, "Unexpected character")

\* IdlTokenizer.peek
IdlTokenizer_peek(self) ==
  IF self._peek # <<>> THEN Returns(self, self._peek)
  ELSE CHOOSE x \in
         { IF p.raised # <<>> THEN p ELSE Returns(p.self, p.self._peek) :
             p \in {peek_after_skip(_skip_whitespace_and_comments(self, <<>>))} } :
         TRUE

\* next() as it would be without the read: the token peeked is returned and
\* the reader stays where it is.
IdlTokenizer_next_unread(self) ==
  CHOOSE x \in
    { IF p.raised # <<>> \/ p.ret = <<>> THEN p
      ELSE Returns([p.self EXCEPT !._peek = <<>>], p.ret) :
        p \in {IdlTokenizer_peek(self)} } : TRUE

\* IdlTokenizer.next
IdlTokenizer_next(self) ==
  CHOOSE x \in
    { IF p.raised # <<>> \/ p.ret = <<>> THEN p
      ELSE Returns([p.self EXCEPT
                      !._reader = StringReader_read(@, p.ret[1].length),
                      !._peek = <<>>],
                   p.ret) :
        p \in {IdlTokenizer_peek(self)} } : TRUE

\* IdlTokenizer.expect
IdlTokenizer_expect(self, token_type) ==
  CHOOSE x \in
    { IF p.raised # <<>> THEN p
      ELSE IF p.ret = <<>>
      THEN IdlTokenizer_raise_error(p.self, "Unexpected EOF looking for")
      ELSE IF p.ret[1].type # token_type
      THEN IdlTokenizer_raise_error(p.self, "Expecting")
      ELSE IdlTokenizer_next(p.self) :
        p \in {IdlTokenizer_peek(self)} } : TRUE

\* A read_if_type that reads the token whatever its type.
IdlTokenizer_read_if_type_any(self, token_type) ==
  CHOOSE x \in
    { IF p.raised # <<>> THEN p
      ELSE IF p.ret = <<>> THEN Returns(p.self, FALSE)
      ELSE Returns(IdlTokenizer_next(p.self).self, TRUE) :
        p \in {IdlTokenizer_peek(self)} } : TRUE

\* IdlTokenizer.read_if_type
IdlTokenizer_read_if_type(self, token_type) ==
  CHOOSE x \in
    { IF p.raised # <<>> THEN p
      ELSE IF p.ret = <<>> \/ p.ret[1].type # token_type
      THEN Returns(p.self, FALSE)
      ELSE Returns(IdlTokenizer_next(p.self).self, TRUE) :
        p \in {IdlTokenizer_peek(self)} } : TRUE

\* IdlTokenizer.peek_is_type: the value returned is None at the end of the
\* input, which is false as read_if_type's is.
IdlTokenizer_peek_is_type(self, token_type) ==
  CHOOSE x \in
    { IF p.raised # <<>> THEN p
      ELSE Returns(p.self, p.ret # <<>> /\ p.ret[1].type = token_type) :
        p \in {IdlTokenizer_peek(self)} } : TRUE

\* The regular expressions of the numbers of the grammar lexer, matched
\* against a whole word, and the value the lexer gives the match.
\* -?(([0-9]+\.[0-9]*|[0-9]*\.[0-9]+)([Ee][+-]?[0-9]+)?|[0-9]+[Ee][+-]?[0-9]+)
FLOAT_LITERAL(word) ==
  LET body == IF StartsWith(word, <<"-">>) THEN Tail(word) ELSE word
      es == { i \in 1..Len(body) : body[i] \in {"e", "E"} }
      mantissa == IF es = {} THEN body ELSE SubSeq(body, 1, SetMin(es) - 1)
      exponent == IF es = {} THEN <<>>
                  ELSE SubSeq(body, SetMin(es) + 1, Len(body))
      dots == { i \in 1..Len(mantissa) : mantissa[i] = "." }
      whole == IF dots = {} THEN mantissa
               ELSE SubSeq(mantissa, 1, SetMin(dots) - 1)
      fraction == IF dots = {} THEN <<>>
                  ELSE SubSeq(mantissa, SetMin(dots) + 1, Len(mantissa))
  IN  /\ IsDigits(whole \o fraction, 10)
      /\ dots # {} \/ es # {}
      /\ es # {} => IsDigits(Unsigned(exponent), 10)
\* -?([1-9][0-9]*|0[Xx][0-9A-Fa-f]+|0[0-7]*)
INTEGER_LITERAL(word) ==
  LET body == IF StartsWith(word, <<"-">>) THEN Tail(word) ELSE word
  IN  \/ IsDigits(body, 10) /\ body[1] # "0"
      \/ /\ StartsWith(body, <<"0", "x">>) \/ StartsWith(body, <<"0", "X">>)
         /\ IsDigits(SubSeq(body, 3, Len(body)), 16)
      \/ /\ StartsWith(body, <<"0">>)
         /\ \A i \in 2..Len(body) : body[i] \in DigitsOf(8)
t_FLOAT_LITERAL(word) == float(word)
t_INTEGER_LITERAL(word) ==
  LET body == IF StartsWith(word, <<"-">>) THEN Tail(word) ELSE word
  IN  IF StartsWith(body, <<"0", "x">>) \/ StartsWith(body, <<"0", "X">>)
      THEN int(word, 16)
      ELSE IF StartsWith(body, <<"0">>) THEN int(word, 8)
      ELSE int(word, 10)

\* The words of the numbers: every word of up to MaxChars of NumberChars
\* that starts as a number does (a digit, '-' or '.'), the words of
\* tests/idl_tokenizer_test.py and '0.5', '-0123' and '-Infinity'.
NumberChars == {"0", "1", "8", "-", ".", "e", "x", "a"}
MaxChars == 4
TestedNumbers ==
  { <<"1", "2", "3", "4">>,
    <<"0", "x", "7", "7", "7">>,
    <<"0", "X", "a", "b", "c", "D", "E", "F">>,
    <<"3", "e", "5">>,
    <<"7", "e", "-", "3">>,
    <<"-", "9", "9", "9">>,
    <<"-", "0", "x", "3", "4", "5">>,
    <<".", "1", "2", "3">>,
    <<"0">>,
    <<"0", "1", "2", "3">> }
TestedBadNumbers ==
  { <<"-", "-", "2">>,
    <<"3", "-", "3">>,
    <<"5", "a", "b", "c">>,
    <<"0", "9", "3">>,
    <<"3", "e", "e", "3", "4">>,
    <<"3", ".", "4", ".", "2">>,
    <<"3", "x", "5", "2">>,
    <<"2", "4", "y", "z">> }
NumberWords ==
  { w \in UNION { [1..n -> NumberChars] : n \in 1..MaxChars } :
      w[1] \in string_digits \cup {"-", "."} }
    \cup TestedNumbers \cup TestedBadNumbers
    \cup { <<"0", ".", "5">>,
          <<"-", "0", "1", "2", "3">>,
          <<"-", "I", "n", "f", "i", "n", "i", "t", "y">> }

\* The pieces the texts of the tokenizer are made of: an identifier, a
\* number, a one-character token, a space, a newline, a doc comment, a
\* block comment, a line comment, the empty comment and a character that
\* starts no token.
Pieces == {"a", "1", ";", " ", "nl", "/**d*/", "/**e*/", "/*c*/", "//c", "/**/", "@"}
PieceText(p) ==
  CASE p = "a" -> <<"a">>
    [] p = "1" -> <<"1">>
    [] p = ";" -> <<";">>
    [] p = " " -> <<" ">>
    [] p = "nl" -> <<"\n">>
    [] p = "/**d*/" -> <<"/", "*", "*", "d", "*", "/">>
    [] p = "/**e*/" -> <<"/", "*", "*", "e", "*", "/">>
    [] p = "/*c*/" -> <<"/", "*", "c", "*", "/">>
    [] p = "//c" -> <<"/", "/", "c", "\n">>
    [] p = "/**/" -> <<"/", "*", "*", "/">>
    [] p = "@" -> <<"@">>
RECURSIVE PiecesText(_)
PiecesText(ps) ==
  IF ps = <<>> THEN <<>> ELSE PieceText(Head(ps)) \o PiecesText(Tail(ps))

\* The texts: up to MaxPieces pieces, a word never next to a word (the two
\* would be one word).
MaxPieces == 3
WordPieces == {"a", "1"}
TokenTexts ==
  { ps \in UNION { [1..n -> Pieces] : n \in 0..MaxPieces } :
      \A i \in 1..(Len(ps) - 1) : ~(ps[i] \in WordPieces /\ ps[i + 1] \in WordPieces) }
TokenTypes == {"IDENTIFIER", "NUMBER_LITERAL", ";"}

\* ---------------------------------------------------------- argument texts
\* The forms of one argument named n: plain, optional, optional with a
\* default, variadic, and the two forms the grammar has no rule for.
ArgForms == {"plain", "optional", "default", "variadic", "optional-variadic",
             "plain-default"}
ArgText(form, n) ==
  CASE form = "plain" -> <<kwLong, Sp, Wd(n, 1)>>
    [] form = "optional" -> <<kwOptional, Sp, kwLong, Sp, Wd(n, 1)>>
    [] form = "default" ->
         <<kwOptional, Sp, kwLong, Sp, Wd(n, 1), Sp, Pn("="), Sp, One>>
    [] form = "variadic" -> <<kwLong, Ellipsis, Sp, Wd(n, 1)>>
    [] form = "optional-variadic" ->
         <<kwOptional, Sp, kwLong, Ellipsis, Sp, Wd(n, 1)>>
    [] form = "plain-default" -> <<kwLong, Sp, Wd(n, 1), Sp, Pn("="), Sp, One>>

ArgNames == <<"a", "b", "c", "d", "e">>

\* (form1 a, form2 b, ...), with a line break after each ','.
RECURSIVE ArgsBody(_, _)
ArgsBody(forms, k) ==
  IF k > Len(forms) THEN <<>>
  ELSE ArgText(forms[k], ArgNames[k])
         \o (IF k < Len(forms) THEN <<Pn(","), Nl>> ELSE <<>>)
         \o ArgsBody(forms, k + 1)
ArgList(forms) == <<Pn("(")>> \o ArgsBody(forms, 1) \o <<Pn(")")>>

MaxArgs == 3
FormLists == UNION { [1..n -> ArgForms] : n \in 0..MaxArgs }

\* [ArgList(form1 a, ...)] dictionary Foo {};
Attributed(forms) ==
  <<Pn("["), Wd("ArgList", 7)>> \o ArgList(forms) \o <<Pn("]"), Sp>>
    \o Dict("Foo", <<>>)

\* -------------------------------------------------------- annotation texts
Foo == Wd("Foo", 3)
\* One extended attribute, by the way it is written.
Annotations ==
  {"NoArgs", "Ident=Foo", "ArgList(long a)", "NamedArgList=Foo(long a)",
   "IdentList=(Foo, Bar)", "NoArgs=Foo", "Ident", "Bar", "My=Foo", "My()",
   "Boom", "Dup", "Type", "Member", "IdentList=Foo", "IdentList=(Foo)"}
AnnotationText(a) ==
  CASE a = "NoArgs" -> <<Wd("NoArgs", 6)>>
    [] a = "Ident=Foo" -> <<Wd("Ident", 5), Pn("="), Foo>>
    [] a = "ArgList(long a)" -> <<Wd("ArgList", 7)>> \o ArgList(<<"plain">>)
    [] a = "NamedArgList=Foo(long a)" ->
         <<Wd("NamedArgList", 12), Pn("="), Foo>> \o ArgList(<<"plain">>)
    [] a = "IdentList=(Foo, Bar)" ->
         <<Wd("IdentList", 9), Pn("="), Pn("("), Foo, Pn(","), Sp,
           Wd("Bar", 3), Pn(")")>>
    [] a = "NoArgs=Foo" -> <<Wd("NoArgs", 6), Pn("="), Foo>>
    [] a = "Ident" -> <<Wd("Ident", 5)>>
    [] a = "Bar" -> <<Wd("Bar", 3)>>
    [] a = "My=Foo" -> <<Wd("My", 2), Pn("="), Foo>>
    [] a = "My()" -> <<Wd("My", 2), Pn("("), Pn(")")>>
    [] a = "Boom" -> <<Wd("Boom", 4)>>
    [] a = "Dup" -> <<Wd("Dup", 3)>>
    [] a = "Type" -> <<Wd("Type", 4)>>
    [] a = "Member" -> <<Wd("Member", 6)>>
    [] a = "IdentList=Foo" -> <<Wd("IdentList", 9), Pn("="), Foo>>
    [] a = "IdentList=(Foo)" ->
         <<Wd("IdentList", 9), Pn("="), Pn("("), Foo, Pn(")")>>

\* [a1, a2, ...] dictionary Foo {};
RECURSIVE AnnotationItems(_, _)
AnnotationItems(as, k) ==
  IF k > Len(as) THEN <<>>
  ELSE AnnotationText(as[k])
         \o (IF k < Len(as) THEN <<Pn(","), Sp>> ELSE <<>>)
         \o AnnotationItems(as, k + 1)
Annotated(as) ==
  <<Pn("[")>> \o AnnotationItems(as, 1) \o <<Pn("]"), Sp>> \o Dict("Foo", <<>>)

MaxAttrs == 2
AnnotationLists == UNION { [1..n -> Annotations] : n \in 1..MaxAttrs }

\* [a1, a2, ...] alone, and the candidate locations a caller of
\* read_extensions passes (tests/idl_parser_test.py).
AnnotationList(as) == <<Pn("[")>> \o AnnotationItems(as, 1) \o <<Pn("]")>>
CandidateLocations == { {"definition"}, {"mixin member", "type"}, {"member", "type"} }

\* -------------------------------------------------------------- type texts
\* A type as it is written: the words of its name, a '?' before it or not,
\* the number of '?' after it, and for a name followed by '<' the types
\* between '<' and '>' ("open" where the '>' is left out).
Atom(words, lead, q) ==
  [args |-> <<>>, kind |-> "atom", q |-> q, words |-> words, lead |-> lead]
Generic(word, lead, q, args) ==
  [args |-> args, kind |-> "generic", q |-> q, words |-> <<word>>, lead |-> lead]
Open(word, args) ==
  [args |-> args, kind |-> "open", q |-> 0, words |-> <<word>>, lead |-> FALSE]

WordLen(w) ==
  CASE w \in {"Foo", "any", "foo"} -> 3
    [] w \in {"void", "long", "byte"} -> 4
    [] w \in {"short", "float", "octet"} -> 5
    [] w \in {"double", "record", "MyType"} -> 6
    [] w \in {"Promise", "boolean"} -> 7
    [] w \in {"sequence", "unsigned"} -> 8
    [] w = "DOMString" -> 9
    [] w = "ByteString" -> 10
    [] w = "FrozenArray" -> 11
    [] w = "unrestricted" -> 12
Word(w) == Wd(w, WordLen(w))

RECURSIVE TypeText(_), TypeTexts(_)
TypeTexts(args) ==
  IF args = <<>> THEN <<>>
  ELSE TypeText(Head(args))
         \o (IF Len(args) > 1 THEN <<Pn(","), Sp>> ELSE <<>>)
         \o TypeTexts(Tail(args))
TypeText(e) ==
  (IF e.lead THEN <<Pn("?")>> ELSE <<>>)
    \o Flatten([k \in 1..Len(e.words) |->
                  IF k = 1 THEN <<Word(e.words[k])>> ELSE <<Sp, Word(e.words[k])>>])
    \o (IF e.kind = "atom" THEN <<>>
        ELSE <<Pn("<")>> \o TypeTexts(e.args)
               \o (IF e.kind = "generic" THEN <<Pn(">")>> ELSE <<>>))
    \o [k \in 1..e.q |-> Pn("?")]

\* dictionary Foo {<type> foo;};
TypeMember(e) == Dict("Foo", TypeText(e) \o <<Sp, Word("foo"), Pn(";")>>)

\* The keywords of the primitive types, and their sequences.
PrimitiveKeywords ==
  {"unsigned", "unrestricted", "long", "short", "float", "double", "boolean",
   "byte", "octet"}
MaxKeywords == 3
KeywordTypes ==
  { Atom(ks, FALSE, 0) :
      ks \in UNION { [1..n -> PrimitiveKeywords \ {"byte", "octet", "boolean"}] :
                       n \in 1..MaxKeywords }
               \cup { <<k>> : k \in PrimitiveKeywords } }

\* Names alone, with and without '?'.
NameTypes ==
  { Atom(<<w>>, lead, q) :
      w \in {"Foo", "double", "DOMString", "any", "void", "sequence", "Promise",
             "FrozenArray", "record"},
      lead \in BOOLEAN, q \in 0..2 }

\* The types written between '<' and '>': names with and without '?', and
\* a '?' alone.
InnerTypes ==
  { Atom(<<w>>, FALSE, q) : w \in {"Foo", "double", "float", "void"}, q \in 0..1 }
    \cup { Atom(<<"Foo">>, TRUE, 0), Atom(<<"Foo">>, FALSE, 2), Atom(<<>>, TRUE, 0) }
KeyTypes ==
  { Atom(<<"DOMString">>, FALSE, 0), Atom(<<"ByteString">>, FALSE, 0),
    Atom(<<"DOMString">>, FALSE, 1), Atom(<<"Foo">>, FALSE, 0) }
OneLevel ==
  { Generic(w, lead, q, <<a>>) :
      w \in {"sequence", "FrozenArray", "Promise", "MyType"},
      lead \in BOOLEAN, q \in 0..2, a \in InnerTypes }
    \cup { Generic("record", FALSE, q, <<k, a>>) :
             q \in 0..1, k \in KeyTypes,
             a \in { Atom(<<"Foo">>, FALSE, 0), Atom(<<"Foo">>, FALSE, 1),
                     Atom(<<"void">>, FALSE, 0) } }
    \cup { Generic("record", FALSE, 0, <<Atom(<<"Foo">>, FALSE, 0)>>),
           Generic("Promise", FALSE, 0, <<>>),
           Open("Promise", <<Atom(<<"double">>, FALSE, 0)>>) }
TwoLevels ==
  { Generic(w, FALSE, q, <<Generic(v, FALSE, p, <<Atom(<<a>>, FALSE, n)>>)>>) :
      w \in {"sequence", "Promise"}, v \in {"sequence", "Promise"},
      q \in 0..1, p \in 0..1, n \in 0..1, a \in {"Foo", "void"} }
TypeExprs == KeywordTypes \cup NameTypes \cup OneLevel \cup TwoLevels

\* ------------------------------------------------------ declaration texts
\* The ways a dictionary without members is declared: alone, with a base,
\* partial, partial with a base, and with what no declaration may hold.
Declarations ==
  {"dictionary Foo {};", "dictionary Foo : Bar {};", "partial dictionary Foo {};",
   "partial dictionary Foo : Bar {};", "dictionary Foo : {};",
   "dictionary Foo Bar {};", "dictionary partial Foo {};"}
kwPartial == Wd("partial", 7)
DeclarationText(d) ==
  LET body == <<Sp, Pn("{"), Pn("}"), Pn(";")>>
      base == <<Sp, Pn(":"), Sp, Wd("Bar", 3)>>
  IN  CASE d = "dictionary Foo {};" -> <<kwDictionary, Sp, Foo>> \o body
        [] d = "dictionary Foo : Bar {};" -> <<kwDictionary, Sp, Foo>> \o base \o body
        [] d = "partial dictionary Foo {};" ->
             <<kwPartial, Sp, kwDictionary, Sp, Foo>> \o body
        [] d = "partial dictionary Foo : Bar {};" ->
             <<kwPartial, Sp, kwDictionary, Sp, Foo>> \o base \o body
        [] d = "dictionary Foo : {};" ->
             <<kwDictionary, Sp, Foo, Sp, Pn(":")>> \o body
        [] d = "dictionary Foo Bar {};" ->
             <<kwDictionary, Sp, Foo, Sp, Wd("Bar", 3)>> \o body
        [] d = "dictionary partial Foo {};" ->
             <<kwDictionary, Sp, kwPartial, Sp, Foo>> \o body

\* ------------------------------------------------------- definition texts
\* A member list with an extension list that is never closed.
OpenBody == <<Pn("["), Wd("NoArgs", 6), Sp, kwLong, Sp, Wd("x", 1), Pn(";")>>

\* The lines a text is made of: dictionaries, a stray identifier, and a
\* character the lexer has no rule for.
DictLines == { Dict("foo", b) : b \in GoodBodies \cup BadBodies }
Lines1 == DictLines \cup { Dict("foo", OpenBody), <<Wd("foo", 3)>>, <<Bad>> }

Texts ==
  { Lines(ls) : ls \in UNION { [1..n -> Lines1] : n \in 1..MaxDefs } }
    \cup { <<>>, Annotated(<<"NoArgs=Foo", "Bar">>), Annotated(<<"Dup">>),
           <<Doc, Nl>> \o Dict("foo", <<>>) }

\* The texts a parser that has been used is given.
ReuseTexts ==
  { <<>>, Dict("foo", <<>>), Dict("foo", <<Sp, Wd("x", 1), Sp>>), <<Bad>>,
    Lines(<<Dict("foo", <<>>), Dict("foo", <<Sp, Wd("x", 1), Sp>>)>>),
    Annotated(<<"NoArgs=Foo", "Bar">>) }

\* ------------------------------------------------------------ the machine
NoCall ==
  [n |-> 0, contents |-> <<>>, run |-> [st |-> "None", errs |-> <<>>, exc |-> <<>>, rec |-> 0],
   outcome |-> [file |-> "", msg |-> <<>>, line |-> 0, col |-> 0,
                text |-> <<>>, kind |-> "None", inner_errors |-> <<>>,
                types |-> <<>>, none |-> FALSE],
   before |-> "None"]
NoReader ==
  [v |-> <<>>, contents |-> <<>>, raised |-> <<>>, locations |-> {},
   done |-> FALSE]
NoCtor == [raised |-> "None", extensions |-> <<>>, done |-> FALSE, names |-> <<>>]

\* The arguments of the constructions: options over the feature names with
\* the descriptors of the tests, and each registry with the default options.
NameChoices == { <<>> } \cup { <<ns>> : ns \in SUBSET FeatureNames }
ConstructorArgs ==
  { <<ns, TestExtensions>> : ns \in NameChoices }
    \cup { <<<<>>, e>> : e \in Registries }

\* No StringReader and no IdlTokenizer made yet.
NoStringReader == [line |-> 0, col |-> 0, _data |-> <<>>, _pos |-> -1]

Init ==
  /\ parser = <<>>
  /\ ctor = NoCtor
  /\ call = NoCall
  /\ reader = NoReader
  /\ sreader = NoStringReader
  /\ tokenizer = <<>>
  /\ tcall = <<>>
  /\ threads = <<>>
  /\ versions = <<>>
  /\ loop = <<>>

\* Options(*names) and IdlParser(options=.., extensions=extensions), or
\* IdlParser(extensions=extensions) where names is <<>>: the exception
\* raised, and the instance.
Constructed(names, extensions) ==
  LET o == IF names = <<>> THEN Options_all ELSE Options(names[1])
      p == IdlParser(IF names = <<>> THEN <<>> ELSE <<o>>, extensions)
  IN  [raised |-> IF o.raised THEN "ValueError"
                  ELSE IF p.raised THEN "RuntimeError" ELSE "None",
       self |-> IF o.raised THEN <<>> ELSE p.self]

\* parser = IdlParser(options=Options(*names), extensions=extensions)
Construct(names, extensions) ==
  /\ ~ctor.done
  /\ ctor' = [raised |-> Constructed(names, extensions).raised, extensions |-> extensions, done |-> TRUE,
              names |-> names]
  /\ parser' = Constructed(names, extensions).self
  /\ UNCHANGED <<call, reader, sreader, tokenizer, tcall, threads, versions, loop>>

\* parser.parse('', contents).  The call is recorded with the kind of the
\* outcome of the call before it.
Parse(contents) ==
  /\ parser # <<>>
  /\ ~reader.done
  /\ call.n < MaxCalls
  /\ call.n = 0 \/ contents \in ReuseTexts
  /\ \E r \in {parse(parser[1], "", contents)} :
       /\ call' = [n |-> call.n + 1, contents |-> contents,
                   run |-> r.run, outcome |-> r.outcome,
                   before |-> call.outcome.kind]
       /\ parser' = <<r.self>>
  /\ UNCHANGED <<ctor, reader, sreader, tokenizer, tcall, threads, versions, loop>>

\* idl_parser.IdlParser().read_arg_list() on a reader over the text of the
\* argument list: of any list before the grammar parser is called, of the
\* list the grammar parser was given after it.
ReadArgList(forms) ==
  /\ ~reader.done
  /\ call.n = 0 \/ call.contents = Attributed(forms)
  /\ \E r \in {read_arg_list(ArgList(forms))} :
       reader' = [v |-> r.v, contents |-> ArgList(forms),
                  raised |-> r.raised, locations |-> {}, done |-> TRUE]
  /\ UNCHANGED <<parser, ctor, call, sreader, tokenizer, tcall, threads, versions, loop>>

\* idl_parser.IdlParser(IdlExtensions).read_extensions(locations) on a reader
\* over the text of the annotation list.
ReadExtensions(as, locations) ==
  /\ ~reader.done
  /\ call.n = 0 \/ call.contents = Annotated(as)
  /\ \E r \in {read_extensions(AnnotationList(as), locations)} :
       reader' = [v |-> r.v, contents |-> AnnotationList(as),
                  raised |-> r.raised, locations |-> locations, done |-> TRUE]
  /\ UNCHANGED <<parser, ctor, call, sreader, tokenizer, tcall, threads, versions, loop>>

\* idl_parser.IdlParser().parse_file('', body) on the text of a dictionary
\* with one member of the type: of any before the grammar parser is called,
\* of the type the grammar parser was given after it.
ParseFile(e) ==
  /\ ~reader.done
  /\ call.n = 0 \/ call.contents = TypeMember(e)
  /\ \E r \in {parse_file(TypeMember(e))} :
       reader' = [v |-> r.v, contents |-> TypeMember(e),
                  raised |-> r.raised, locations |-> {}, done |-> TRUE]
  /\ UNCHANGED <<parser, ctor, call, sreader, tokenizer, tcall, threads, versions, loop>>

Next ==
  \/ \E a \in ConstructorArgs : Construct(a[1], a[2])
  \/ \E contents \in Texts : Parse(contents)

Spec == Init /\ [][Next]_vars

\* The grammar parser with each registry, on the annotated definitions.
NextExt ==
  \/ \E e \in {TestExtensions, SplitExtensions} : Construct(<<>>, e)
  \/ \E as \in AnnotationLists : Parse(Annotated(as))
  \/ \E as \in AnnotationLists :
       \E locations \in CandidateLocations : ReadExtensions(as, locations)

SpecExt == Init /\ [][NextExt]_vars

\* The two parsers on the argument lists: the grammar parser reads the list
\* as the arguments of the annotation [ArgList(...)], the hand-written one
\* reads it alone.
NextArgs ==
  \/ Construct(<<>>, TestExtensions)
  \/ \E fs \in FormLists : Parse(Attributed(fs))
  \/ \E fs \in FormLists : ReadArgList(fs)

SpecArgs == Init /\ [][NextArgs]_vars

\* Two threads that call parse at the same time, on one instance or on an
\* instance each; the instances are made with the options and the
\* descriptors of the tests.
Threads == {1, 2}
NoThread ==
  [contents |-> <<>>, r |-> <<>>, outcome |-> NoCall.outcome, pc |-> "idle"]
InitThreads ==
  /\ ctor = NoCtor
  /\ call = NoCall
  /\ reader = NoReader
  /\ sreader = NoStringReader
  /\ tokenizer = <<>>
  /\ tcall = <<>>
  /\ versions = <<>>
  /\ loop = <<>>
  /\ \E shared \in BOOLEAN :
       /\ threads = [t |-> [t \in Threads |-> NoThread], shared |-> shared]
       /\ parser = IF shared THEN IdlParser(<<>>, TestExtensions).self
                   ELSE IdlParser(<<>>, TestExtensions).self
                          \o IdlParser(<<>>, TestExtensions).self

\* Every thread has the one instance.
InstanceOf_one(t) == 1

\* The instance thread t calls parse on.
InstanceOf(t) == IF threads.shared THEN 1 ELSE t

Step(t, pc, self, r, outcome) ==
  /\ parser' = [parser EXCEPT ![InstanceOf(t)] = self]
  /\ threads' = [threads EXCEPT !.t[t].pc = pc, !.t[t].r = r,
                                !.t[t].outcome = outcome]
  /\ UNCHANGED <<ctor, call, reader, sreader, tokenizer, tcall, versions, loop>>

\* Thread t enters parse('', contents): self.errors = []
ParseReset(t, contents) ==
  /\ threads.t[t].pc = "idle"
  /\ parser' = [parser EXCEPT ![InstanceOf(t)] = parse_reset(@)]
  /\ threads' = [threads EXCEPT !.t[t].pc = "reset", !.t[t].contents = contents]
  /\ UNCHANGED <<ctor, call, reader, sreader, tokenizer, tcall, versions, loop>>

\* self.lexer.set_contents(name, contents)
ParseSetContents(t) ==
  /\ threads.t[t].pc = "reset"
  /\ Step(t, "set", parse_set_contents(parser[InstanceOf(t)], "", threads.t[t].contents),
          <<>>, NoCall.outcome)

\* ret = self.yacc.parse(...), and the except clause
ParseRun(t) ==
  /\ threads.t[t].pc = "set"
  /\ \E x \in {parse_run(parser[InstanceOf(t)])} :
       Step(t, "ran", x.self, <<[st |-> x.r.st, stk |-> x.r.stk]>>, NoCall.outcome)

\* if self.errors: raise ...; return ...
ParseReturn(t) ==
  /\ threads.t[t].pc = "ran"
  /\ Step(t, "done", parser[InstanceOf(t)], threads.t[t].r,
          parse_return(parser[InstanceOf(t)], threads.t[t].r[1]))

NextThreads ==
  \E t \in Threads :
    \/ \E contents \in ReuseTexts : ParseReset(t, contents)
    \/ ParseSetContents(t)
    \/ ParseRun(t)
    \/ ParseReturn(t)

SpecThreads == InitThreads /\ [][NextThreads]_vars

\* The grammar parser, under each construction, on the declarations.
NextDecl ==
  \/ \E a \in ConstructorArgs : Construct(a[1], a[2])
  \/ \E d \in Declarations : Parse(DeclarationText(d))

SpecDecl == Init /\ [][NextDecl]_vars

\* The two parsers on a dictionary with one member, of each type.
NextTypes ==
  \/ Construct(<<>>, TestExtensions)
  \/ \E e \in TypeExprs : Parse(TypeMember(e))
  \/ \E e \in TypeExprs : ParseFile(e)

SpecTypes == Init /\ [][NextTypes]_vars

\* reader = StringReader(data)
InitReader ==
  /\ parser = <<>>
  /\ ctor = NoCtor
  /\ call = NoCall
  /\ reader = NoReader
  /\ \E data \in Datas : sreader = StringReader(data)
  /\ tokenizer = <<>>
  /\ tcall = <<>>
  /\ threads = <<>>
  /\ versions = <<>>
  /\ loop = <<>>

\* reader.read(count)
Read(count) ==
  /\ sreader' = StringReader_read(sreader, count)
  /\ UNCHANGED <<parser, ctor, call, reader, tokenizer, tcall, threads, versions, loop>>

NextReader == \E count \in Counts : Read(count)

SpecReader == InitReader /\ [][NextReader]_vars

\* reader = IdlTokenizer('', text), the text being that of the pieces.
InitTokenizer ==
  /\ parser = <<>>
  /\ ctor = NoCtor
  /\ call = NoCall
  /\ reader = NoReader
  /\ sreader = NoStringReader
  /\ \E ps \in TokenTexts :
       /\ tokenizer = <<IdlTokenizer_new(PiecesText(ps))>>
       /\ tcall = <<[raised |-> <<>>, ret |-> <<>>, token_type |-> "None",
                     op |-> "IdlTokenizer", pieces |-> ps]>>
  /\ threads = <<>>
  /\ versions = <<>>
  /\ loop = <<>>

\* A call of a method of the tokenizer; r is what the call gives.
Called(op, token_type, r) ==
  /\ tokenizer' = <<r.self>>
  /\ tcall' = <<[raised |-> r.raised, ret |-> r.ret, token_type |-> token_type,
                 op |-> op, pieces |-> tcall[1].pieces]>>
  /\ UNCHANGED <<parser, ctor, call, reader, sreader, threads, versions, loop>>

Peek == \E r \in {IdlTokenizer_peek(tokenizer[1])} : Called("peek", "None", r)
Next_ == \E r \in {IdlTokenizer_next(tokenizer[1])} : Called("next", "None", r)
ExpectToken(token_type) ==
  \E r \in {IdlTokenizer_expect(tokenizer[1], token_type)} :
    Called("expect", token_type, r)
ReadIfType(token_type) ==
  \E r \in {IdlTokenizer_read_if_type(tokenizer[1], token_type)} :
    Called("read_if_type", token_type, r)
PeekIsType(token_type) ==
  \E r \in {IdlTokenizer_peek_is_type(tokenizer[1], token_type)} :
    Called("peek_is_type", token_type, r)

NextTokenizer ==
  \/ Peek
  \/ Next_
  \/ \E token_type \in TokenTypes : ExpectToken(token_type)
  \/ \E token_type \in TokenTypes : ReadIfType(token_type)
  \/ \E token_type \in TokenTypes : PeekIsType(token_type)

SpecTokenizer == InitTokenizer /\ [][NextTokenizer]_vars

\* tokenizer = IdlTokenizer('file', word) for a word of the numbers, then
\* peek and next.
InitNumbers ==
  /\ parser = <<>>
  /\ ctor = NoCtor
  /\ call = NoCall
  /\ reader = NoReader
  /\ sreader = NoStringReader
  /\ \E w \in NumberWords :
       /\ tokenizer = <<IdlTokenizer_new(w)>>
       /\ tcall = <<[raised |-> <<>>, ret |-> <<>>, token_type |-> "None",
                     op |-> "IdlTokenizer", pieces |-> w]>>
  /\ threads = <<>>
  /\ versions = <<>>
  /\ loop = <<>>
NextNumbers == Peek \/ Next_
SpecNumbers == InitNumbers /\ [][NextNumbers]_vars

\* ------------------------------------------------------------ version.py
_MAX_VERSION == 2^16 - 1
_MAX_COMMITS == 2^12 - 1
_MAX_BETA_VERSION == 2^3 - 1

\* a | b and a << n on numbers that are not negative.
RECURSIVE BitOr(_, _)
BitOr(a, b) ==
  IF a = 0 THEN b
  ELSE IF b = 0 THEN a
  ELSE (IF a % 2 = 1 \/ b % 2 = 1 THEN 1 ELSE 0) + 2 * BitOr(a \div 2, b \div 2)
ShiftLeft(a, n) == a * 2^n

\* The number of characters of s from index i on that are in chars, and
\* whether s holds the characters of lit from index i on.
RECURSIVE RunOf(_, _, _)
RunOf(s, i, chars) ==
  IF i <= Len(s) /\ s[i] \in chars THEN 1 + RunOf(s, i + 1, chars) ELSE 0
HasAt(s, i, lit) ==
  i + Len(lit) - 1 <= Len(s) /\ SubSeq(s, i, i + Len(lit) - 1) = lit

\* re.match(r'^v(\d+)\.(\d+)\.(\d+)(-beta(\d*))?(-(\d+)-g[0-9a-f]+)?(-dirty)?$',
\* version_str) on a string of ASCII characters without a newline: the
\* groups 1, 2, 3, 4, 5, 6, 7 and 8 (<<>> for a group that is None), or
\* matched FALSE.
VersionMatch(version_str) ==
  LET s == version_str
      hex == string_digits \cup { HexLetters[i] : i \in 1..6 }
      n1 == RunOf(s, 2, string_digits)
      p2 == 2 + n1 + 1
      n2 == RunOf(s, p2, string_digits)
      p3 == p2 + n2 + 1
      n3 == RunOf(s, p3, string_digits)
      p4 == p3 + n3
      beta == HasAt(s, p4, <<"-", "b", "e", "t", "a">>)
      n5 == IF beta THEN RunOf(s, p4 + 5, string_digits) ELSE 0
      p6 == IF beta THEN p4 + 5 + n5 ELSE p4
      n7 == IF HasAt(s, p6, <<"-">>) THEN RunOf(s, p6 + 1, string_digits) ELSE 0
      nh == IF n7 > 0 /\ HasAt(s, p6 + 1 + n7, <<"-", "g">>)
            THEN RunOf(s, p6 + 1 + n7 + 2, hex) ELSE 0
      commits == nh > 0
      p8 == IF commits THEN p6 + 1 + n7 + 2 + nh ELSE p6
      dirty == HasAt(s, p8, <<"-", "d", "i", "r", "t", "y">>)
      end == IF dirty THEN p8 + 6 ELSE p8
  IN  IF /\ HasAt(s, 1, <<"v">>) /\ n1 > 0
         /\ HasAt(s, 2 + n1, <<".">>) /\ n2 > 0
         /\ HasAt(s, p2 + n2, <<".">>) /\ n3 > 0
         /\ end = Len(s) + 1
      THEN [matched |-> TRUE,
            g1 |-> SubSeq(s, 2, 1 + n1),
            g2 |-> SubSeq(s, p2, p2 + n2 - 1),
            g3 |-> SubSeq(s, p3, p3 + n3 - 1),
            g4 |-> beta,
            g5 |-> SubSeq(s, p4 + 5, p4 + 4 + n5),
            g6 |-> commits,
            g7 |-> IF commits THEN SubSeq(s, p6 + 1, p6 + n7) ELSE <<>>,
            g8 |-> dirty]
      ELSE [matched |-> FALSE, g1 |-> <<>>, g2 |-> <<>>, g3 |-> <<>>,
            g4 |-> FALSE, g5 |-> <<>>, g6 |-> FALSE, g7 |-> <<>>,
            g8 |-> FALSE]

\* What ParseVersion gives: the tuple, or the ValueError raised.
Version(major, minor, revision, tag) ==
  [v |-> <<major, minor, revision, tag>>, raised |-> "None"]
ValueError(msg) == [v |-> <<>>, raised |-> msg]

\* The tag of a version, once the beta part is done: the commits and the
\* dirty flag.
TagOf(match, tag) ==
  LET commits == DigitsValue(match.g7, 10)
      with_commits == IF match.g6 THEN BitOr(tag, ShiftLeft(commits, 1)) ELSE tag
  IN  IF match.g6 /\ commits = 0 THEN ValueError("Invalid version format")
      ELSE IF match.g6 /\ commits > _MAX_COMMITS
      THEN ValueError("Too many commits since last release")
      ELSE [raised |-> "None",
            tag |-> IF match.g8 THEN BitOr(with_commits, 1) ELSE with_commits]

\* A ParseVersion that leaves the version of a beta as it is written.
ParseVersion_as_written(version_str) ==
  CHOOSE x \in
    { CHOOSE y \in
        { CHOOSE z \in
            {
              IF ~match.matched THEN ValueError("Invalid version format")
              ELSE IF \E v \in {major, minor, revision} : v > _MAX_VERSION
              THEN ValueError("Version number too large")
              ELSE IF major = 0 /\ minor = 0 /\ revision = 0
              THEN ValueError("Version cannot be v0.0.0")
              ELSE IF match.g4 /\ (beta_version = 0 \/ beta_version > _MAX_BETA_VERSION)
              THEN ValueError("Invalid beta version number")
              ELSE IF tag.raised # "None" THEN ValueError(tag.raised)
              ELSE Version(major, minor, revision, tag.tag) :
                tag \in {TagOf(match, IF match.g4 THEN ShiftLeft(beta_version, 13)
                                      ELSE 0)} } : TRUE :
            major \in {DigitsValue(match.g1, 10)},
            minor \in {DigitsValue(match.g2, 10)},
            revision \in {DigitsValue(match.g3, 10)},
            beta_version \in {IF match.g5 = <<>> THEN 1
                              ELSE DigitsValue(match.g5, 10)} } : TRUE :
        match \in {VersionMatch(version_str)} } : TRUE

\* ParseVersion
ParseVersion(version_str) ==
  CHOOSE x \in
    { CHOOSE y \in
        { CHOOSE z \in
            {
              IF ~match.matched THEN ValueError("Invalid version format")
              ELSE IF \E v \in {major, minor, revision} : v > _MAX_VERSION
              THEN ValueError("Version number too large")
              ELSE IF major = 0 /\ minor = 0 /\ revision = 0
              THEN ValueError("Version cannot be v0.0.0")
              ELSE IF match.g4 /\ (beta_version = 0 \/ beta_version > _MAX_BETA_VERSION)
              THEN ValueError("Invalid beta version number")
              ELSE IF tag.raised # "None" THEN ValueError(tag.raised)
              ELSE IF ~match.g4 THEN Version(major, minor, revision, tag.tag)
              ELSE IF revision # 0 THEN Version(major, minor, revision - 1, tag.tag)
              ELSE IF minor # 0 THEN Version(major, minor - 1, _MAX_VERSION, tag.tag)
              ELSE Version(major - 1, _MAX_VERSION, _MAX_VERSION, tag.tag) :
                tag \in {TagOf(match, IF match.g4 THEN ShiftLeft(beta_version, 13)
                                      ELSE 0)} } : TRUE :
            major \in {DigitsValue(match.g1, 10)},
            minor \in {DigitsValue(match.g2, 10)},
            revision \in {DigitsValue(match.g3, 10)},
            beta_version \in {IF match.g5 = <<>> THEN 1
                              ELSE DigitsValue(match.g5, 10)} } : TRUE :
        match \in {VersionMatch(version_str)} } : TRUE

\* a[0]<<48 | a[1]<<32 | a[2]<<16 | a[3] as its four 16-bit parts, the
\* highest first (the highest part is not cut to 16 bits), and the
\* comparison of two such numbers.
Packed(a) ==
  [k \in 1..4 |->
     BitOr(IF k = 1 THEN a[k] ELSE a[k] % 2^16,
           IF k < 4 THEN a[k + 1] \div 2^16 ELSE 0)]
Greater(x, y) ==
  \E k \in 1..4 : x[k] > y[k] /\ \A j \in 1..(k - 1) : x[j] = y[j]

\* The version strings: 'v' major '.' minor '.' revision, '-beta' and a
\* number or none, '-' commits '-g' hash, '-dirty'; and strings that are
\* rejected.
Num65535 == <<"6", "5", "5", "3", "5">>
Majors == { <<"0">>, <<"1">> }
Minors == { <<"0">>, Num65535 }
Revisions == { <<"0">>, <<"1">>, Num65535 }
Betas == { <<>>, << <<>> >>, << <<"7">> >> }
Commits == { <<>>, << <<"1">> >>, << <<"4", "0", "9", "5">> >> }
Builds ==
  [major : Majors, minor : Minors, revision : Revisions, beta : Betas,
   commits : Commits, dirty : BOOLEAN]
VersionText(b) ==
  <<"v">> \o b.major \o <<".">> \o b.minor \o <<".">> \o b.revision
    \o (IF b.beta = <<>> THEN <<>> ELSE <<"-", "b", "e", "t", "a">> \o b.beta[1])
    \o (IF b.commits = <<>> THEN <<>>
        ELSE <<"-">> \o b.commits[1] \o <<"-", "g", "b", "c", "1">>)
    \o (IF b.dirty THEN <<"-", "d", "i", "r", "t", "y">> ELSE <<>>)
Build(major, minor, revision, beta, commits, dirty) ==
  [beta |-> beta, commits |-> commits, dirty |-> dirty, major |-> major,
   minor |-> minor, revision |-> revision]
RejectedBuilds ==
  { Build(<<"6", "5", "5", "3", "6">>, <<"0">>, <<"0">>, <<>>, <<>>, FALSE),
    Build(<<"1">>, <<"0">>, <<"0">>, << <<"0">> >>, <<>>, FALSE),
    Build(<<"1">>, <<"0">>, <<"0">>, << <<"8">> >>, <<>>, FALSE),
    Build(<<"1">>, <<"0">>, <<"0">>, <<>>, << <<"0">> >>, FALSE),
    Build(<<"1">>, <<"0">>, <<"0">>, <<>>, << <<"4", "0", "9", "6">> >>, FALSE),
    Build(<<"1">>, <<>>, <<"0">>, <<>>, <<>>, FALSE),
    Build(<<"1">>, <<"0">>, <<"x">>, <<>>, <<>>, TRUE) }

NoVersions == [b |-> <<>>, a |-> <<>>, greater |-> <<>>, less |-> <<>>]

\* Two builds are chosen.
InitVersions ==
  /\ parser = <<>>
  /\ ctor = NoCtor
  /\ call = NoCall
  /\ reader = NoReader
  /\ sreader = NoStringReader
  /\ tokenizer = <<>>
  /\ tcall = <<>>
  /\ threads = <<>>
  /\ loop = <<>>
  /\ \E greater, less \in Builds \cup RejectedBuilds :
       versions = [b |-> <<>>, a |-> <<>>,
                   greater |-> <<greater>>, less |-> <<less>>]

\* a = version.ParseVersion(greater); b = version.ParseVersion(less)
CompareVersions ==
  /\ versions.a = <<>>
  /\ \E greater \in {VersionText(versions.greater[1])},
        less \in {VersionText(versions.less[1])} :
       \E a \in {ParseVersion(greater)}, b \in {ParseVersion(less)} :
         versions' = [versions EXCEPT !.a = <<a>>, !.b = <<b>>]
  /\ UNCHANGED <<parser, ctor, call, reader, sreader, tokenizer, tcall, threads,
                 loop>>
NextVersions == CompareVersions
SpecVersions == InitVersions /\ [][NextVersions]_vars

\* ================================================================ properties
AllFeatures == \A f \in _all_features : has_feature(parser[1].options, f)
Raises(kind) == call.n > 0 /\ call.outcome.kind = kind
InnerErrors == call.outcome.inner_errors

\* One dictionary with a malformed member list and its closing '}' ';' per
\* line; in Unclosed the malformed list may be an extension list left open.
Malformed ==
  UNION { [1..n -> { Dict("foo", b) : b \in BadBodies }] : n \in 1..MaxDefs }
Unclosed ==
  UNION { [1..n -> { Dict("foo", b) : b \in BadBodies \cup {OpenBody} }] :
            n \in 1..MaxDefs }

\* The text of each list of lines.
TextOf == [ls \in Unclosed |-> Lines(ls)]

\* The call raises one IdlSyntaxError with one inner error per line of ls, in
\* source order, error j on line j.
OnePerLine(ls) ==
  /\ Raises("IdlSyntaxError")
  /\ Len(InnerErrors) = Len(ls)
  /\ \A j \in 1..Len(ls) : InnerErrors[j].line = j

NoErrorRecorded == call.run.errs = <<>> /\ call.run.exc = <<>>

\* C2: parse returns a Results value if and only if no error was recorded
\* during the call; otherwise it raises one IdlSyntaxError whose inner_errors
\* is not empty and whose message and position are those of inner_errors[0].
C2_ResultsIffNoError ==
  call.n > 0 =>
    /\ call.outcome.kind \in {"Results", "IdlSyntaxError"}
    /\ call.outcome.kind = "Results" <=> NoErrorRecorded
    /\ call.outcome.kind = "IdlSyntaxError" =>
         /\ InnerErrors # <<>>
         /\ call.outcome.msg = InnerErrors[1].msg
         /\ call.outcome.file = InnerErrors[1].file
         /\ call.outcome.line = InnerErrors[1].line
         /\ call.outcome.col = InnerErrors[1].col
         /\ call.outcome.text = InnerErrors[1].text

\* C3 as stated: an error that stops the parse is appended after the errors
\* recorded before it, and the first recorded error stays the primary one.
C3_StoppingErrorLast ==
  Raises("IdlSyntaxError") /\ call.run.errs # <<>> =>
    /\ InnerErrors = call.run.errs \o call.run.exc
    /\ call.outcome.msg = call.run.errs[1].msg

\* C3: inner_errors holds the errors the rules recorded in the order they
\* were recorded, the error of a grammar failure at the end of the input
\* last among them; the exception the lexer raises at a character that
\* starts no token stops the parse and is placed first, before the errors
\* recorded earlier, and it is then the primary error of the aggregate.
C3_LexerErrorFirst ==
  Raises("IdlSyntaxError") =>
    /\ call.run.st = "lex" =>
         /\ InnerErrors = call.run.exc \o call.run.errs
         /\ call.outcome.msg = call.run.exc[1].msg
         /\ call.outcome.line = call.run.exc[1].line
         /\ call.outcome.col = call.run.exc[1].col
    /\ call.run.st # "lex" => InnerErrors = call.run.errs
    /\ \A k \in 1..Len(InnerErrors) :
         InnerErrors[k].msg[1] = "Unexpected end of file after"
           => k = Len(InnerErrors)

C3_LexerStopsAfterErrors ==
  /\ Raises("IdlSyntaxError")
  /\ call.run.st = "lex"
  /\ call.run.errs # <<>>
  /\ Len(InnerErrors) = Len(call.run.errs) + 1
  /\ InnerErrors[1].msg[1] = "Unexpected character"
  /\ InnerErrors[1].line > InnerErrors[2].line

\* The instance a caller gets from the constructor call made.
Fresh == Constructed(ctor.names, ctor.extensions).self[1]

\* C4: whatever the calls made before on the instance, the outcome of a call
\* (the definitions returned, or the inner errors with their positions) is
\* the outcome a fresh instance with the same options and extensions gives
\* for the input, and the instance is left as the fresh one is.
C4_Reusable ==
  call.n > 0 =>
    \A fresh \in {parse(Fresh, "", call.contents)} :
      /\ call.outcome = fresh.outcome
      /\ parser[1] = fresh.self

C4_SecondCallAfterFailure ==
  /\ call.n = 2
  /\ call.before = "IdlSyntaxError"
  /\ call.outcome.kind = "Results"
  /\ call.outcome.types # <<>>
  /\ parser[1].errors = <<>>

\* What an argument form writes.
IsOptional(form) == form \in {"optional", "default", "optional-variadic"}
IsVariadic(form) == form \in {"variadic", "optional-variadic"}
HasDefault(form) == form \in {"default", "plain-default"}

\* The rule of order, on the forms written and on the arguments parsed:
\* after an optional argument every argument is optional, and a variadic
\* argument is the last one.
WrittenInOrder(fs) ==
  \A i, j \in 1..Len(fs) :
    i < j => (IsOptional(fs[i]) => IsOptional(fs[j])) /\ ~IsVariadic(fs[i])
InOrder(args) ==
  \A i, j \in 1..Len(args) :
    i < j => (args[i].optional => args[j].optional) /\ ~args[i].is_variadic

\* The arguments parsed are the ones written.
AsWritten(args, fs) ==
  /\ Len(args) = Len(fs)
  /\ \A k \in 1..Len(fs) :
       /\ args[k].name = ArgNames[k]
       /\ args[k].optional = IsOptional(fs[k])
       /\ args[k].is_variadic = IsVariadic(fs[k])
       /\ (args[k].default # <<>>) = HasDefault(fs[k])

\* The text of each list of forms, for either parser.
AttributedText == [fs \in FormLists |-> Attributed(fs)]
ArgListText == [fs \in FormLists |-> ArgList(fs)]

\* The arguments of the annotation [ArgList(...)] of the definition returned.
ParsedArguments == call.outcome.types[1].extensions[1][1].kwargs.args
ReaderReturned == reader.done /\ reader.raised = <<>>
ReaderRaised == reader.done /\ reader.raised # <<>>

\* C5: in both parsers, an argument list that parses without error holds the
\* arguments written, every argument after an optional one is optional and a
\* variadic argument is the last one; a list written against either rule
\* yields an error.
C5_ArgumentOrder ==
  /\ Raises("Results") => InOrder(ParsedArguments)
  /\ ReaderReturned => InOrder(reader.v)
  /\ \A fs \in FormLists :
       /\ call.n > 0 /\ call.contents = AttributedText[fs] =>
            /\ Raises("Results") => AsWritten(ParsedArguments, fs)
            /\ ~WrittenInOrder(fs) => Raises("IdlSyntaxError")
       /\ reader.done /\ reader.contents = ArgListText[fs] =>
            /\ ReaderReturned => AsWritten(reader.v, fs)
            /\ ~WrittenInOrder(fs) => ReaderRaised

C5_OptionalTail ==
  /\ Raises("Results")
  /\ ReaderReturned
  /\ call.contents = Attributed(<<"plain", "optional", "default">>)
  /\ Len(ParsedArguments) = 3
  /\ ~ParsedArguments[1].optional
  /\ ParsedArguments[2].optional
  /\ ParsedArguments[3].default # <<>>
  /\ Len(reader.v) = 3
  /\ reader.v[3].optional

\* C6: in both parsers no parsed argument is optional and variadic, and one
\* with a default is optional; 'optional T... x' and a non-optional 'T x = v'
\* are rejected while the list is parsed: the grammar has no rule for them
\* (every error of the call is an unexpected token), and the reader raises.
WellFormed(args) ==
  \A k \in 1..Len(args) :
    /\ ~(args[k].optional /\ args[k].is_variadic)
    /\ args[k].default # <<>> => args[k].optional
NoRuleFor(fs) ==
  \E k \in 1..Len(fs) : fs[k] \in {"optional-variadic", "plain-default"}

C6_OptionalXorVariadic ==
  /\ Raises("Results") => WellFormed(ParsedArguments)
  /\ ReaderReturned => WellFormed(reader.v)
  /\ \A fs \in FormLists :
       NoRuleFor(fs) =>
         /\ call.n > 0 /\ call.contents = AttributedText[fs] =>
              /\ Raises("IdlSyntaxError")
              /\ \A k \in 1..Len(InnerErrors) :
                   InnerErrors[k].msg[1] = "Unexpected"
         /\ reader.done /\ reader.contents = ArgListText[fs] => ReaderRaised

C6_BothReject ==
  /\ Raises("IdlSyntaxError")
  /\ call.contents = Attributed(<<"plain", "optional-variadic">>)
  /\ InnerErrors[1].msg = <<"Unexpected", "...">>
  /\ InnerErrors[1].line = 2
  /\ reader.done
  /\ reader.raised = <<"Cannot use ... with optional arguments">>

\* Texts of dictionaries the grammar accepts, one per line, by their member
\* lists.
GoodLists == UNION { [1..n -> GoodBodies] : n \in 1..MaxDefs }
DictLinesOf == [bs \in GoodLists |-> Lines([j \in 1..Len(bs) |-> Dict("foo", bs[j])])]

\* Where a member list writes 'required' and the '=' of a default: the index
\* of the lexeme, 0 where it writes none.
Where(b, lexeme) ==
  IF \E k \in 1..Len(b) : b[k] = lexeme
  THEN SetMin({ k \in 1..Len(b) : b[k] = lexeme })
  ELSE 0

\* The column in its line of lexeme k of the member list of Dict("foo", b).
MemberCol(b, k) == TextLen(<<kwDictionary, Sp, Wd("foo", 3), Sp, Pn("{")>>)
                     + Offset(b, k) + 1

\* The inner errors about the feature that are located on the line.
FeatureErrors(feature, line) ==
  { k \in 1..Len(InnerErrors) :
      /\ InnerErrors[k].msg = <<"Feature is not allowed by options">> \o feature
      /\ InnerErrors[k].line = line }

\* The construct written at lexeme k of the member list b of line j (at none
\* where k is 0) and gated by the feature gives one feature error, located
\* at the lexeme, when the options lack the feature, and none when they
\* have it.
Gated(feature, b, j, k) ==
  IF k # 0 /\ ~has_feature(parser[1].options, feature)
  THEN /\ Raises("IdlSyntaxError")
       /\ Cardinality(FeatureErrors(feature, j)) = 1
       /\ \A e \in FeatureErrors(feature, j) :
            /\ InnerErrors[e].col = MemberCol(b, k)
            /\ InnerErrors[e].cls = "SyntaxError"
  ELSE FeatureErrors(feature, j) = {}

\* C7: a member that uses 'required' (gated by dictionary-required) or a
\* default value (gated by dictionary-default) records one feature error
\* located at the construct when the parser's options lack the capability,
\* and none when they have it; a member the parse returns carries the
\* construct.
C7_GatedConstructs ==
  \A bs \in GoodLists :
    call.n > 0 /\ call.contents = DictLinesOf[bs] =>
      \A j \in 1..Len(bs) :
        /\ Gated(DICTIONARY_REQUIRED, bs[j], j, Where(bs[j], kwRequired))
        /\ Gated(DICTIONARY_DEFAULT, bs[j], j, Where(bs[j], Pn("=")))
        /\ Raises("Results") /\ bs[j] # <<>> =>
             /\ call.outcome.types[j].attributes[1].is_required
                  = (Where(bs[j], kwRequired) # 0)
             /\ (call.outcome.types[j].attributes[1].default # <<>>)
                  = (Where(bs[j], Pn("=")) # 0)

C7_RequiredWithoutCapability ==
  /\ Raises("IdlSyntaxError")
  /\ ~has_feature(parser[1].options, DICTIONARY_REQUIRED)
  /\ has_feature(parser[1].options, DICTIONARY_DEFAULT)
  /\ call.contents
       = Dict("foo", <<kwRequired, Sp, kwLong, Sp, Wd("x", 1), Pn("="), One,
                       Pn(";")>>)
  /\ Len(InnerErrors) = 1
  /\ InnerErrors[1].msg = <<"Feature is not allowed by options">> \o DICTIONARY_REQUIRED
  /\ InnerErrors[1].col = 17

\* C8: Options(names) raises if and only if a name is no known capability;
\* otherwise has_feature is true exactly of the names given and of
\* 'dictionary' when a name given starts with 'dictionary-' (of nothing when
\* no name is given); Options.all(), the options of a parser constructed
\* without any, enables every known capability.
C8_Options ==
  ctor.done /\ ctor.raised # "RuntimeError" =>
    IF ctor.names = <<>> THEN AllFeatures
    ELSE /\ ctor.raised = "ValueError" <=> ctor.names[1] \ _all_features # {}
         /\ ctor.raised = "None" =>
              \A f \in _all_features :
                has_feature(parser[1].options, f) <=>
                  \/ f \in ctor.names[1]
                  \/ /\ f = <<"dictionary">>
                     /\ \E name \in ctor.names[1] :
                          IsPrefix(<<"dictionary", "-">>, name)

C8_DictionaryAssumed ==
  /\ ctor.done
  /\ ctor.names = <<{DICTIONARY_DEFAULT}>>
  /\ parser # <<>>
  /\ has_feature(parser[1].options, DICTIONARY)
  /\ has_feature(parser[1].options, DICTIONARY_DEFAULT)
  /\ ~has_feature(parser[1].options, DICTIONARY_REQUIRED)

\* The name and the shape an annotation is written with.
Written(a) ==
  CASE a = "NoArgs" -> [name |-> "NoArgs", kind |-> NO_ARGS]
    [] a = "Ident=Foo" -> [name |-> "Ident", kind |-> IDENT]
    [] a = "ArgList(long a)" -> [name |-> "ArgList", kind |-> ARG_LIST]
    [] a = "NamedArgList=Foo(long a)" ->
         [name |-> "NamedArgList", kind |-> NAMED_ARG_LIST]
    [] a = "IdentList=(Foo, Bar)" -> [name |-> "IdentList", kind |-> IDENT_LIST]
    [] a = "NoArgs=Foo" -> [name |-> "NoArgs", kind |-> IDENT]
    [] a = "Ident" -> [name |-> "Ident", kind |-> NO_ARGS]
    [] a = "Bar" -> [name |-> "Bar", kind |-> NO_ARGS]
    [] a = "My=Foo" -> [name |-> "My", kind |-> IDENT]
    [] a = "My()" -> [name |-> "My", kind |-> ARG_LIST]
    [] a = "Boom" -> [name |-> "Boom", kind |-> NO_ARGS]
    [] a = "Dup" -> [name |-> "Dup", kind |-> NO_ARGS]
    [] a = "Type" -> [name |-> "Type", kind |-> NO_ARGS]
    [] a = "Member" -> [name |-> "Member", kind |-> NO_ARGS]
    [] a = "IdentList=Foo" -> [name |-> "IdentList", kind |-> IDENT]
    [] a = "IdentList=(Foo)" -> [name |-> "IdentList", kind |-> IDENT_LIST]

\* The fields an instance of the kind is constructed with.
FieldsOf(kind) ==
  CASE kind = NO_ARGS -> {}
    [] kind = IDENT -> {"arg"}
    [] kind = ARG_LIST -> {"args"}
    [] kind = IDENT_LIST -> {"args"}
    [] kind = NAMED_ARG_LIST -> {"argName", "args"}

\* The registered descriptors with the name of the annotation, and those of
\* them that accept its shape.
Named(a) ==
  { k \in 1..Len(ctor.extensions) : ctor.extensions[k].name = Written(a).name }
Accepting(a) ==
  { k \in Named(a) : InKinds(Written(a).kind, ctor.extensions[k].kinds) }
Constructible(a) ==
  /\ Accepting(a) # {}
  /\ \A k \in Accepting(a) : ctor.extensions[k].init # "raises"

\* The column of item j of the list: it follows '[' and the items before it,
\* which are separated by ', '.
ItemCol(as, j) ==
  IF j = 1 THEN 2
  ELSE 2 + TextLen(AnnotationItems(SubSeq(as, 1, j - 1), 1)) + 2

ErrorsAt(col) ==
  { k \in 1..Len(InnerErrors) :
      InnerErrors[k].line = 1 /\ InnerErrors[k].col = col }

\* The message for an annotation whose shape no descriptor of its name
\* accepts, k being a descriptor of that name.
ShapeMessage(a, k) ==
  IF Len(ctor.extensions[k].kinds) = 1
  THEN <<"should have", Written(a).name, KindNames(ctor.extensions[k].kinds[1]),
         "but was given", KindNames(Written(a).kind)>>
  ELSE <<"is not in an allowed form", Written(a).name>>

\* C9: for an annotation whose name is that of a registered descriptor: when
\* a descriptor of the name accepts its shape no shape error is recorded for
\* it, and a list of such annotations (their constructors not raising) is
\* returned as the instances of those descriptors, each with exactly the
\* fields of its kind; otherwise no instance is constructed (the call raises)
\* and an error is recorded at the annotation that, for a descriptor of one
\* kind, names the shape expected and the shape given.
C9_ShapeDecides ==
  \A as \in AnnotationLists :
    call.n > 0 /\ call.contents = Annotated(as) =>
      /\ \A j \in 1..Len(as) :
           Named(as[j]) # {} =>
             IF Accepting(as[j]) # {}
             THEN \A e \in ErrorsAt(ItemCol(as, j)) :
                    InnerErrors[e].cls = "ExtensionError"
             ELSE /\ Raises("IdlSyntaxError")
                  /\ \E e \in ErrorsAt(ItemCol(as, j)) :
                       \E k \in Named(as[j]) :
                         InnerErrors[e].msg = ShapeMessage(as[j], k)
      /\ (\A j \in 1..Len(as) : Constructible(as[j])) <=> Raises("Results")
      /\ Raises("Results") =>
           /\ Len(call.outcome.types[1].extensions) = Len(as)
           /\ \A j \in 1..Len(as) :
                /\ call.outcome.types[1].extensions[j] # <<>>
                /\ call.outcome.types[1].extensions[j][1].cls \in Accepting(as[j])
                /\ call.outcome.types[1].extensions[j][1].name = Written(as[j]).name
                /\ call.outcome.types[1].extensions[j][1].kwargs.has
                     = FieldsOf(Written(as[j]).kind)

\* The k-th smallest member of a set of numbers.
Nth(S, k) == CHOOSE x \in S : Cardinality({ y \in S : y < x }) = k - 1

\* The items of the list that are invalid (no descriptor of the name accepts
\* the shape), and the inner errors that are no ExtensionError.
InvalidItems(as) == { j \in 1..Len(as) : Accepting(as[j]) = {} }
ShapeErrors == { k \in 1..Len(InnerErrors) : InnerErrors[k].cls = "SyntaxError" }

\* C10: a list with n invalid annotations (unknown name or shape not
\* accepted) yields n errors in the order of the list, each located at its
\* own item.
C10_EveryInvalidItemReported ==
  \A as \in AnnotationLists :
    call.n > 0 /\ call.contents = Annotated(as) =>
      /\ Cardinality(ShapeErrors) = Cardinality(InvalidItems(as))
      /\ \A k \in 1..Cardinality(ShapeErrors) :
           /\ InnerErrors[Nth(ShapeErrors, k)].line = 1
           /\ InnerErrors[Nth(ShapeErrors, k)].col
                = ItemCol(as, Nth(InvalidItems(as), k))

\* The annotations of the list that a descriptor accepts by name and shape
\* but allows at none of the given candidate locations.
Misplaced(as, locations) ==
  { j \in 1..Len(as) :
      /\ Accepting(as[j]) # {}
      /\ \A k \in Accepting(as[j]) :
           ctor.extensions[k].locations \cap locations = {} }

\* C11: an annotation in front of a dictionary definition that is registered
\* and correctly shaped, and whose descriptor does not allow the location
\* "definition", makes the call raise with the error '[<name>] is not valid
\* in this context' at the annotation; an annotation whose descriptor allows
\* the location gets no such error.
C11_LocationChecked ==
  \A as \in AnnotationLists :
    call.n > 0 /\ call.contents = Annotated(as) /\ ~Raises("AttributeError") =>
      \A j \in 1..Len(as) :
        IF j \in Misplaced(as, {"definition"})
        THEN /\ Raises("IdlSyntaxError")
             /\ \E e \in ErrorsAt(ItemCol(as, j)) :
                  InnerErrors[e].msg
                    = <<"is not valid in this context", Written(as[j]).name>>
        ELSE \A e \in ErrorsAt(ItemCol(as, j)) :
               InnerErrors[e].msg[1] # "is not valid in this context"

\* What the grammar parser and the hand-written reader made of the one
\* annotation as, written in front of a dictionary (the parser) or alone
\* with the candidate location "definition" (the reader).
ParsedAlone(a) == call.n > 0 /\ call.contents = Annotated(<<a>>)
ReadAlone(a) ==
  /\ reader.done
  /\ reader.contents = AnnotationList(<<a>>)
  /\ reader.locations = {"definition"}
OneIdent == ExtArgs({"args"}, "", "", <<>>, <<"Foo">>)

\* C12: for the descriptor IdentList, whose only kind is IdentList, the
\* annotation [IdentList=Foo] is accepted and constructed with args = ['Foo'],
\* as [IdentList=(Foo)] is, by the grammar parser and by the hand-written
\* reader.
C12_BareIdentifierAsList ==
  \A a \in {"IdentList=Foo", "IdentList=(Foo)"} :
    /\ ParsedAlone(a) =>
         /\ Raises("Results")
         /\ call.outcome.types[1].extensions[1] # <<>>
         /\ call.outcome.types[1].extensions[1][1].name = "IdentList"
         /\ call.outcome.types[1].extensions[1][1].kwargs = OneIdent
    /\ ReadAlone(a) =>
         /\ ReaderReturned
         /\ reader.v[1].name = "IdentList"
         /\ reader.v[1].kwargs = OneIdent

\* The part of C12 about the hand-written reader.
C12_ReaderTakesBareIdentifier ==
  \A a \in {"IdentList=Foo", "IdentList=(Foo)"} :
    ReadAlone(a) =>
      /\ ReaderReturned
      /\ reader.v[1].name = "IdentList"
      /\ reader.v[1].kwargs = OneIdent

\* The annotations of the list whose descriptor is found and accepts the
\* shape, and whose constructor raises RuntimeError('My error').
RaisingItems(as) ==
  { j \in 1..Len(as) :
      /\ Accepting(as[j]) # {}
      /\ \E k \in Accepting(as[j]) : ctor.extensions[k].init = "raises" }

\* C13: when the constructor of the matched descriptor raises, the call
\* raises IdlSyntaxError (the exception of the constructor does not escape)
\* with exactly one error at the annotation, an ExtensionError whose inner
\* is the exception raised and whose message is its message; the items after
\* it are still examined, an invalid one among them being reported too.
C13_ConstructorErrorWrapped ==
  \A as \in AnnotationLists :
    call.n > 0 /\ call.contents = Annotated(as) =>
      \A j \in RaisingItems(as) :
        /\ Raises("IdlSyntaxError")
        /\ Cardinality(ErrorsAt(ItemCol(as, j))) = 1
        /\ \A e \in ErrorsAt(ItemCol(as, j)) :
             /\ InnerErrors[e].cls = "ExtensionError"
             /\ InnerErrors[e].inner = "RuntimeError"
             /\ InnerErrors[e].msg = <<"My error">>
        /\ \A i \in InvalidItems(as) : i > j => ErrorsAt(ItemCol(as, i)) # {}

\* The characters the reader has consumed, and those of them after the
\* last newline.
Consumed == SubSeq(sreader._data, 1, sreader._pos)
SinceNewline ==
  IF str_count(Consumed, "\n") = 0 THEN Len(Consumed)
  ELSE Len(Consumed) - (str_rindex(Consumed, "\n") + 1)

\* C16: after any reads, line is 1 plus the newlines consumed, col is 1 plus
\* the characters consumed since the last newline consumed (since the start
\* when there is none), the cursor is within the data, and eof() holds
\* exactly when all the data is consumed.
C16_LineAndColumn ==
  /\ sreader._pos \in 0..Len(sreader._data)
  /\ sreader.line = 1 + str_count(Consumed, "\n")
  /\ sreader.col = 1 + SinceNewline
  /\ StringReader_eof(sreader) <=> Consumed = sreader._data

\* A reader that has consumed a newline and a character after it, and is at
\* the end of its data.
C16_SecondLineAtEnd ==
  /\ sreader._pos > 0
  /\ sreader.line = 2
  /\ sreader.col = 2
  /\ StringReader_eof(sreader)

\* ------------------------------------------------------------------ C14, C15
\* What the pieces of a text say of its tokens.  A token piece is one token;
\* the tokenizer gives the tokens before the first character that starts no
\* token.
TokenPieces == {"a", "1", ";"}
DocPieces == {"/**d*/", "/**e*/"}
Unreadable(ps) ==
  IF \E k \in 1..Len(ps) : ps[k] = "@"
  THEN CHOOSE k \in 1..Len(ps) : ps[k] = "@" /\ \A j \in 1..(k - 1) : ps[j] # "@"
  ELSE Len(ps) + 1
TokenIndexes(ps) == { k \in 1..(Unreadable(ps) - 1) : ps[k] \in TokenPieces }
PieceStart(ps, k) == Len(PiecesText(SubSeq(ps, 1, k - 1)))
PieceEnd(ps, k) == Len(PiecesText(SubSeq(ps, 1, k)))

\* The number of tokens the reader of the tokenizer is past.
TokensRead(self, ps) ==
  Cardinality({ k \in TokenIndexes(ps) : PieceEnd(ps, k) <= self._reader._pos })

\* The piece of the n-th token, 0 when there are fewer.
NthToken(ps, n) ==
  IF n >= 1 /\ \E k \in TokenIndexes(ps) :
                 Cardinality({ j \in TokenIndexes(ps) : j <= k }) = n
  THEN CHOOSE k \in TokenIndexes(ps) :
         Cardinality({ j \in TokenIndexes(ps) : j <= k }) = n
  ELSE 0

\* After n tokens the text goes on to a character that starts no token.
Stuck(ps, n) ==
  /\ Unreadable(ps) <= Len(ps)
  /\ \A k \in (NthToken(ps, n) + 1)..(Unreadable(ps) - 1) : ps[k] \notin TokenPieces
  /\ n = Cardinality(TokenIndexes(ps))

\* The doc comment written for the token of piece k: the last '/** */'
\* comment between the token before and k, with the spaces right before it.
DocsBefore(ps, k) ==
  { j \in 1..(k - 1) : /\ ps[j] \in DocPieces
                       /\ \A i \in j..(k - 1) : ps[i] \notin TokenPieces }
SpacesBefore(ps, j) ==
  { i \in 1..(j - 1) : \A h \in i..(j - 1) : ps[h] = " " }
WrittenDoc(ps, k) ==
  IF DocsBefore(ps, k) = {} THEN <<>>
  ELSE LET j == CHOOSE j \in DocsBefore(ps, k) : \A i \in DocsBefore(ps, k) : i <= j
       IN  <<[i \in 1..Cardinality(SpacesBefore(ps, j)) |-> " "] \o PieceText(ps[j])>>

\* The token of piece k but for its doc; <<>> for piece 0.
WrittenToken(ps, k) ==
  IF k = 0 THEN <<>>
  ELSE <<[num |-> IF ps[k] = "1" THEN <<1, 0>> ELSE NoNumber,
          type |-> IF ps[k] = "a" THEN "IDENTIFIER"
                   ELSE IF ps[k] = "1" THEN "NUMBER_LITERAL" ELSE ps[k],
          value |-> PieceText(ps[k]),
          length |-> 1]>>
Undocumented(ret) ==
  IF ret = <<>> THEN <<>>
  ELSE <<[num |-> ret[1].num, type |-> ret[1].type, value |-> ret[1].value,
          length |-> ret[1].length]>>

\* C14: a token returned by peek, next or expect carries as doc the last
\* '/** */' comment written between the token before it and itself (with
\* the spaces that lead to the comment on its line), and None when there is
\* none: the doc of one token is not carried to the next, and '/* */', '//'
\* and '/**/' comments give no doc.
C14_DocOfNextToken ==
  \A i \in 1..Len(tcall) :
    LET c == tcall[i]
        n == TokensRead(tokenizer[i], c.pieces)
    IN  c.op \in {"peek", "next", "expect"} /\ c.ret # <<>> =>
          c.ret[1].doc =
            WrittenDoc(c.pieces,
                       NthToken(c.pieces, IF c.op = "peek" THEN n + 1 ELSE n))

\* The token after a documented one is read, and has no doc.
C14_DocNotCarried ==
  /\ tcall # <<>>
  /\ tcall[1].pieces = <<"/**d*/", "a", ";">>
  /\ tcall[1].op = "next"
  /\ tcall[1].ret # <<>>
  /\ tcall[1].ret[1].type = ";"
  /\ tcall[1].ret[1].doc = <<>>

\* C15: next, a matching expect and a matching read_if_type read one token
\* and give it (read_if_type gives True); peek, peek_is_type, a failing
\* expect (which raises) and a read_if_type that gives False read none; a
\* peek or a next after a peek gives the token that peek gave; at the end
\* of the input peek and next give None.
C15_Step ==
  LET ps == tcall[1].pieces
      n == TokensRead(tokenizer[1], ps)
      m == TokensRead(tokenizer'[1], ps)
      c == tcall'[1]
      e == WrittenToken(ps, NthToken(ps, n + 1))
      matches == e # <<>> /\ e[1].type = c.token_type
  IN  ~Stuck(ps, n) =>
        /\ c.op = "peek" =>
             c.raised = <<>> /\ Undocumented(c.ret) = e /\ m = n
        /\ c.op = "next" =>
             /\ c.raised = <<>> /\ Undocumented(c.ret) = e
             /\ m = IF e = <<>> THEN n ELSE n + 1
        /\ c.op = "expect" =>
             IF matches
             THEN c.raised = <<>> /\ Undocumented(c.ret) = e /\ m = n + 1
             ELSE c.raised # <<>> /\ m = n
        /\ c.op = "read_if_type" =>
             /\ c.raised = <<>> /\ c.ret = matches
             /\ m = IF matches THEN n + 1 ELSE n
        /\ c.op = "peek_is_type" =>
             c.raised = <<>> /\ c.ret = matches /\ m = n
        /\ c.op \in {"peek", "next"} /\ tcall[1].op = "peek" =>
             c.ret = tcall[1].ret
C15_Consumption == [][C15_Step]_vars

\* An expect that fails after one token was read, the second still unread.
C15_FailedExpectReadsNothing ==
  /\ tcall # <<>>
  /\ tcall[1].op = "expect"
  /\ tcall[1].raised # <<>>
  /\ TokensRead(tokenizer[1], tcall[1].pieces) = 1
  /\ Cardinality(TokenIndexes(tcall[1].pieces)) = 2

\* ------------------------------------------------------------- C17 .. C20
\* The grammar parser was given the dictionary with one member of type e;
\* the hand-written parser was.
ParsedType(e) == call.n > 0 /\ call.contents = TypeMember(e)
ReadTypeOf(e) == reader.done /\ reader.contents = TypeMember(e)
MemberType == call.outcome.types[1].attributes[1].type
ReadMemberType == reader.v[1].attributes[1].type

\* The type as it is written: each '?' makes nullable the type it follows.
RECURSIVE WrittenType(_)
WrittenType(e) ==
  IdlType(e.words, e.q > 0, [k \in 1..Len(e.args) |-> WrittenType(e.args[k])])

\* A type of the text has a '?' before it, or two after it.
RECURSIVE Misquestioned(_)
Misquestioned(e) ==
  e.lead \/ e.q > 1 \/ \E k \in 1..Len(e.args) : Misquestioned(e.args[k])

\* The types a type holds, itself included.
RECURSIVE TypesIn(_)
TypesIn(t) ==
  {t} \cup UNION { TypesIn(t.element_type[k]) : k \in 1..Len(t.element_type) }

SequenceOf(q, p) ==
  Generic("sequence", FALSE, q, <<Atom(<<"Foo">>, FALSE, p)>>)

\* C17: a '?' makes nullable the type it directly follows and no other
\* ('sequence<Foo?>' is a sequence that is not nullable of a nullable Foo,
\* 'sequence<Foo>?' a nullable sequence of a Foo that is not nullable), and
\* a type with '??' or with a '?' before it is a syntax error, in the
\* grammar parser and in the hand-written one.
C17_NullableOfTheTypeBefore ==
  \A e \in TypeExprs :
    /\ ParsedType(e) =>
         /\ Raises("Results") => MemberType.nullable = (e.q > 0)
         /\ Raises("Results") /\ e.kind = "generic" /\ e.words # <<"record">> =>
              MemberType.element_type[1].nullable = (e.args[1].q > 0)
         /\ Misquestioned(e) => Raises("IdlSyntaxError")
         /\ (\E q, p \in 0..1 : e = SequenceOf(q, p)) =>
              Raises("Results") /\ MemberType = WrittenType(e)
    /\ ReadTypeOf(e) =>
         /\ ReaderReturned => ReadMemberType.nullable = (e.q > 0)
         /\ ReaderReturned /\ e.kind = "generic" =>
              ReadMemberType.element_type[1].nullable = (e.args[1].q > 0)
         /\ Misquestioned(e) => ReaderRaised
         /\ (\E q, p \in 0..1 : e = SequenceOf(q, p)) =>
              ReaderReturned /\ ReadMemberType = WrittenType(e)

\* 'sequence<Foo?>' is parsed by the grammar parser.
C17_NullableElement ==
  /\ ParsedType(SequenceOf(0, 1))
  /\ Raises("Results")
  /\ ~MemberType.nullable
  /\ MemberType.element_type[1].nullable

PromiseOf(e) == Generic("Promise", FALSE, 0, <<e>>)
Void == Atom(<<"void">>, FALSE, 0)
\* 'void' is written as the type of the member or between the '<' and '>'
\* of a name other than Promise.
RECURSIVE VoidOutsidePromise(_, _)
VoidOutsidePromise(e, inPromise) ==
  \/ e.words = <<"void">> /\ ~inPromise
  \/ \E k \in 1..Len(e.args) :
       VoidOutsidePromise(e.args[k], e.words = <<"Promise">>)

\* C18: every Promise type of a result is not nullable and 'Promise<...>?'
\* is a syntax error; 'void' is accepted between the '<' and '>' of Promise
\* and is a syntax error as the type of a member and as the element type of
\* sequence and FrozenArray.
C18_PromiseAndVoid ==
  \A e \in TypeExprs :
    ParsedType(e) =>
      /\ Raises("Results") =>
           \A t \in TypesIn(MemberType) : t.name = <<"Promise">> => ~t.nullable
      /\ e.words = <<"Promise">> /\ e.q > 0 => Raises("IdlSyntaxError")
      /\ (\E k \in 1..Len(e.args) :
            e.args[k].words = <<"Promise">> /\ e.args[k].q > 0) =>
           Raises("IdlSyntaxError")
      /\ VoidOutsidePromise(e, FALSE) => Raises("IdlSyntaxError")
      /\ e = PromiseOf(Void) =>
           /\ Raises("Results")
           /\ MemberType = IdlType(<<"Promise">>, FALSE,
                                   <<IdlType(<<"void">>, FALSE, <<>>)>>)

\* 'Promise<void>' is parsed.
C18_PromiseOfVoid ==
  /\ ParsedType(PromiseOf(Void))
  /\ Raises("Results")
  /\ MemberType.element_type[1].name = <<"void">>

Parametrized == {"sequence", "FrozenArray", "Promise", "record"}
\* element_type is set where the name is a parametrized one and only there:
\* a pair with a string type first for record, one type for the others.
ElementTypeAsNamed(type) ==
  \A t \in TypesIn(type) :
    /\ t.element_type # <<>> <=> (Len(t.name) = 1 /\ t.name[1] \in Parametrized)
    /\ t.element_type # <<>> =>
         IF t.name = <<"record">>
         THEN /\ Len(t.element_type) = 2
              /\ t.element_type[1].name \in
                   {<<"ByteString">>, <<"DOMString">>, <<"USVString">>}
         ELSE Len(t.element_type) = 1
\* The types the claim names as rejected: a parametrized name alone, and
\* '<...>' after another name.
NotAType(e) ==
  \/ e.kind = "atom" /\ Len(e.words) = 1 /\ e.words[1] \in Parametrized
  \/ e.kind = "generic" /\ e.words[1] \notin Parametrized

\* C19 for the grammar parser.
C19_GrammarElementTypes ==
  \A e \in TypeExprs :
    ParsedType(e) =>
      /\ Raises("Results") => ElementTypeAsNamed(MemberType)
      /\ NotAType(e) => Raises("IdlSyntaxError")

\* C19: every type of a result has element_type set if and only if its name
\* is sequence, FrozenArray, Promise or record (a pair with a string type as
\* key for record, one type for the others); a parametrized name without
\* '<...>' and '<...>' after another name are syntax errors.  For both
\* parsers.
C19_ElementTypeIffParametrized ==
  /\ C19_GrammarElementTypes
  /\ \A e \in TypeExprs :
       ReadTypeOf(e) =>
         /\ ReaderReturned => ElementTypeAsNamed(ReadMemberType)
         /\ NotAType(e) => ReaderRaised

ValidPrimitives ==
  { <<"long">>, <<"long", "long">>, <<"unsigned", "long">>,
    <<"unsigned", "long", "long">>, <<"short">>, <<"unsigned", "short">>,
    <<"float">>, <<"double">>, <<"unrestricted", "float">>,
    <<"unrestricted", "double">>, <<"boolean">>, <<"byte">>, <<"octet">> }

\* C20: a member whose type is one of the thirteen keyword combinations is
\* parsed to the type named by the keywords, not nullable and without
\* element type; any other sequence of the keywords is a syntax error.
C20_PrimitiveTypes ==
  \A e \in KeywordTypes :
    ParsedType(e) =>
      IF e.words \in ValidPrimitives
      THEN Raises("Results") /\ MemberType = IdlType(e.words, FALSE, <<>>)
      ELSE Raises("IdlSyntaxError")

\* 'unsigned long long' is parsed.
C20_UnsignedLongLong ==
  /\ ParsedType(Atom(<<"unsigned", "long", "long">>, FALSE, 0))
  /\ Raises("Results")
  /\ MemberType.name = <<"unsigned", "long", "long">>

\* -------------------------------------------------------------------- C21
Declared(d) == call.n > 0 /\ call.contents = DeclarationText(d)
\* The field of a definition, <<"absent">> where the definition has none of
\* that name.
Field(definition, name) ==
  IF name \in DOMAIN definition THEN <<definition[name]>> ELSE <<"absent">>

\* C21: with every capability enabled 'dictionary Foo : Bar {};' is parsed
\* to a definition with base 'Bar' that is not partial and
\* 'partial dictionary Foo {};' to a partial one without base; 'partial'
\* with ': Bar' is a syntax error whatever the options.
C21_InheritAndPartial ==
  /\ Declared("dictionary Foo : Bar {};") /\ AllFeatures =>
       /\ Raises("Results")
       /\ Len(call.outcome.types) = 1
       /\ Field(call.outcome.types[1], "base") = <<<<"Bar">>>>
       /\ Field(call.outcome.types[1], "is_partial") = <<FALSE>>
  /\ Declared("partial dictionary Foo {};") /\ AllFeatures =>
       /\ Raises("Results")
       /\ Len(call.outcome.types) = 1
       /\ Field(call.outcome.types[1], "base") = <<<<>>>>
       /\ Field(call.outcome.types[1], "is_partial") = <<TRUE>>
  /\ Declared("partial dictionary Foo : Bar {};") => Raises("IdlSyntaxError")

\* What the grammar of parser.py does: it has no rule for a base nor for
\* 'partial', and each declaration with one is a syntax error.
C21_NoBaseNoPartial ==
  \A d \in Declarations \ {"dictionary Foo {};"} :
    Declared(d) => Raises("IdlSyntaxError")

\* -------------------------------------------------------------------- C22
\* The outcome of parse('', contents) run alone on an instance of its own.
Alone(contents) ==
  parse(IdlParser(<<>>, TestExtensions).self[1], "", contents).outcome
Returned(t) == threads.t[t].pc = "done"

\* C22: calls that run at the same time on an instance each end as they do
\* alone, and leave the options and the descriptors as they were.
C22_OneInstancePerThread ==
  /\ ~threads.shared =>
       \A t \in Threads :
         Returned(t) => threads.t[t].outcome = Alone(threads.t[t].contents)
  /\ \A k \in 1..Len(parser) :
       /\ parser[k].options = Options_all
       /\ parser[k].extensions = TestExtensions

\* On one instance a call of a malformed text returns Results: its errors
\* were emptied by the other call.
C22_ErrorsLost ==
  /\ threads.shared
  /\ \E t \in Threads :
       /\ Returned(t)
       /\ Alone(threads.t[t].contents).kind = "IdlSyntaxError"
       /\ threads.t[t].outcome.kind = "Results"

\* On one instance a call of a well-formed text raises the errors of the
\* other call.
C22_ErrorsOfTheOther ==
  /\ threads.shared
  /\ \E t \in Threads :
       /\ Returned(t)
       /\ Alone(threads.t[t].contents).kind = "Results"
       /\ threads.t[t].outcome.kind = "IdlSyntaxError"

\* -------------------------------------------------------------------- C23
\* The '/* */' comments written between the last doc comment for the token
\* of piece k and the token.
PlainAfterDoc(ps, k) ==
  { j \in 1..(k - 1) : /\ ps[j] = "/*c*/"
                       /\ \E d \in DocsBefore(ps, k) : d < j }
GivenPiece(i) ==
  NthToken(tcall[i].pieces,
           IF tcall[i].op = "peek"
           THEN TokensRead(tokenizer[i], tcall[i].pieces) + 1
           ELSE TokensRead(tokenizer[i], tcall[i].pieces))
Gives(i) == tcall[i].op \in {"peek", "next", "expect"} /\ tcall[i].ret # <<>>

\* C23 as stated: a token with a doc comment and then a '/* */' comment
\* before it carries no doc.
C23_PlainCommentClears ==
  \A i \in 1..Len(tcall) :
    Gives(i) /\ PlainAfterDoc(tcall[i].pieces, GivenPiece(i)) # {} =>
      tcall[i].ret[1].doc = <<>>

\* C23, amended: one doc at most is pending, the one of the last doc comment
\* read since the last token was made: a later doc comment takes the place
\* of an earlier one, and a '/* */' comment leaves the pending doc as it is,
\* so a token with a doc comment and then a '/* */' comment before it
\* carries the doc.
C23_PendingDoc ==
  \A i \in 1..Len(tcall) :
    LET ps == tcall[i].pieces
        k == GivenPiece(i)
        last == CHOOSE j \in DocsBefore(ps, k) : \A d \in DocsBefore(ps, k) : d <= j
    IN  /\ Len(tokenizer[i]._doc) <= 1
        /\ tokenizer[i]._peek # <<>> => tokenizer[i]._doc = <<>>
        /\ Gives(i) =>
             /\ Len(tcall[i].ret[1].doc) <= 1
             /\ DocsBefore(ps, k) = {} <=> tcall[i].ret[1].doc = <<>>
             /\ DocsBefore(ps, k) # {} =>
                  EndsWith(tcall[i].ret[1].doc[1], PieceText(ps[last]))

\* A token after a doc comment and a '/* */' comment carries the doc.
C23_DocKeptOverPlainComment ==
  /\ tcall # <<>>
  /\ tcall[1].pieces = <<"/**d*/", "/*c*/", "a">>
  /\ tcall[1].op = "next"
  /\ tcall[1].ret # <<>>
  /\ tcall[1].ret[1].doc = <<PieceText("/**d*/")>>

\* -------------------------------------------------------------------- C24
\* 'required long x=1;' and the members a returned result holds.
RequiredWithDefault ==
  <<kwRequired, Sp, kwLong, Sp, Wd("x", 1), Pn("="), One, Pn(";")>>
ReturnedMembers ==
  IF Raises("Results") /\ ~call.outcome.none
  THEN UNION { { call.outcome.types[j].attributes[k] :
                   k \in 1..Len(call.outcome.types[j].attributes) } :
               j \in 1..Len(call.outcome.types) }
  ELSE {}

\* C24 as stated: a required member with a default is a syntax error under
\* every options, and a returned required member has default None.
C24_RequiredHasNoDefault ==
  /\ call.n > 0 /\ call.contents = Dict("foo", RequiredWithDefault) =>
       Raises("IdlSyntaxError")
  /\ \A m \in ReturnedMembers : m.is_required => m.default = <<>>

\* C24, amended: the grammar has a Default after the 'required' arm too:
\* 'required T x = v;' is accepted exactly when both dictionary-required and
\* dictionary-default are enabled, the member then has is_required true and
\* the default v, and otherwise the parse raises IdlSyntaxError; a returned
\* member that is required and has a default is returned only under both
\* capabilities.
C24_RequiredMayHaveDefault ==
  LET both == /\ has_feature(parser[1].options, DICTIONARY_REQUIRED)
              /\ has_feature(parser[1].options, DICTIONARY_DEFAULT)
  IN  /\ call.n > 0 /\ call.contents = Dict("foo", RequiredWithDefault) =>
           IF both
           THEN /\ Raises("Results")
                /\ Len(call.outcome.types) = 1
                /\ Len(call.outcome.types[1].attributes) = 1
                /\ call.outcome.types[1].attributes[1].is_required
                /\ call.outcome.types[1].attributes[1].default # <<>>
                /\ call.outcome.types[1].attributes[1].default[1].num = 1
           ELSE Raises("IdlSyntaxError")
      /\ \A m \in ReturnedMembers : m.is_required /\ m.default # <<>> => both

\* A required member is returned with its default.
C24_RequiredWithDefaultReturned ==
  /\ call.n > 0
  /\ call.contents = Dict("foo", RequiredWithDefault)
  /\ \E m \in ReturnedMembers : m.is_required /\ m.default # <<>>

\* -------------------------------------------------------------------- C25
\* The offset in Attributed(fs) of the first character of argument k, and
\* the errors of the rule of order.
RECURSIVE ArgOffset(_, _)
ArgOffset(fs, k) ==
  IF k = 1 THEN TextLen(<<Pn("["), Wd("ArgList", 7), Pn("(")>>)
  ELSE ArgOffset(fs, k - 1)
         + TextLen(ArgText(fs[k - 1], ArgNames[k - 1]) \o <<Pn(","), Nl>>)
OrderErrors ==
  { e \in 1..Len(InnerErrors) :
      InnerErrors[e].msg \in { <<"Optional arguments must be last">>,
                               <<"Variadic argument must be last">> } }
LocatedAtArgument(e, fs, k) ==
  /\ InnerErrors[e].line = k
  /\ InnerErrors[e].text = get_line(call.contents, ArgOffset(fs, k))
  /\ InnerErrors[e].col >= get_col(call.contents, ArgOffset(fs, k))
  /\ InnerErrors[e].col
       <= get_col(call.contents,
                  ArgOffset(fs, k) + TextLen(ArgText(fs[k], ArgNames[k])))

\* C25: the error recorded for an argument written against the rule of order
\* has the line, the column and the line text of an argument of the list
\* (of the one that has to be last, or of the one after it).
C25_LocatedAtOffendingArgument ==
  \A fs \in FormLists :
    call.n > 0 /\ call.contents = AttributedText[fs] =>
      \A e \in OrderErrors : \E k \in 1..Len(fs) : LocatedAtArgument(e, fs, k)

\* What p_ArgumentList and p_Arguments record: the line of the ',' after the
\* argument that has to be last, and the column and the line text of the
\* character whose offset in the file is that line number.
C25_LineNumberAsOffset ==
  \A fs \in FormLists :
    call.n > 0 /\ call.contents = AttributedText[fs] =>
      /\ (~NoRuleFor(fs) /\ ~WrittenInOrder(fs)) => OrderErrors # {}
      /\ \A e \in OrderErrors :
           /\ InnerErrors[e].line \in 1..(Len(fs) - 1)
           /\ ~WrittenInOrder(SubSeq(fs, InnerErrors[e].line, Len(fs)))
           /\ InnerErrors[e].col = InnerErrors[e].line + 1
           /\ InnerErrors[e].text = get_line(call.contents, 0)

\* -------------------------------------------------------------------- C26
\* Two descriptors of the registry share a name and a kind.
Clash(extensions) ==
  \E i, j \in 1..Len(extensions) :
    /\ i < j
    /\ extensions[i].name = extensions[j].name
    /\ \E k \in 1..Len(extensions[i].kinds) :
         InKinds(extensions[i].kinds[k], extensions[j].kinds)

\* C26: the construction raises exactly on such a registry; under a registry
\* whose descriptors of one name have disjoint kinds an annotation of a shape
\* that one of them accepts is returned as its instance, and a parse ends by
\* returning or by raising IdlSyntaxError.
C26_SharedNameResolved ==
  /\ ctor.done /\ ctor.raised # "ValueError" =>
       (ctor.raised = "RuntimeError") = Clash(ctor.extensions)
  /\ call.n > 0 => call.outcome.kind \in {"Results", "IdlSyntaxError"}
  /\ call.n > 0 /\ call.contents = Annotated(<<"Dup">>)
       /\ ctor.extensions = SplitExtensions =>
         /\ Raises("Results")
         /\ Len(call.outcome.types[1].extensions) = 1
         /\ call.outcome.types[1].extensions[1] # <<>>

\* The part of it that holds: the construction raises exactly on a clash.
C26_ConstructionRaisesOnClash ==
  ctor.done /\ ctor.raised # "ValueError" =>
    (ctor.raised = "RuntimeError") = Clash(ctor.extensions)

\* -------------------------------------------------------------------- C27
\* The word is a numeric literal of the grammar, and its value.
IsLiteral(word) == FLOAT_LITERAL(word) \/ INTEGER_LITERAL(word)
LiteralValue(word) ==
  IF INTEGER_LITERAL(word) THEN t_INTEGER_LITERAL(word)[1]
  ELSE t_FLOAT_LITERAL(word)[1]
\* peek has been called on the tokenizer of the word, nothing being read.
Peeked(i) == tcall[i].op = "peek" /\ tokenizer[i]._reader._pos = 0
GivesNumber(i, num) ==
  /\ tcall[i].raised = <<>>
  /\ tcall[i].ret # <<>>
  /\ tcall[i].ret[1].type = "NUMBER_LITERAL"
  /\ tcall[i].ret[1].length = Len(tcall[i].pieces)
  /\ tcall[i].ret[1].num = num

\* C27: a word that is a numeric literal of the grammar is read as one
\* NUMBER_LITERAL token with the value of the literal (in its base, with
\* its sign); a word that starts as a number does and is no literal raises.
C27_NumericLiterals ==
  \A i \in 1..Len(tcall) :
    LET word == tcall[i].pieces
    IN  Peeked(i) /\ ~StartsWith(word, <<".", ".", ".">>)
          /\ word # <<"-", "I", "n", "f", "i", "n", "i", "t", "y">> =>
          IF IsLiteral(word) THEN GivesNumber(i, LiteralValue(word))
          ELSE tcall[i].raised # <<>>

\* What holds of the tokenizer: the words of its test are read as the test
\* says.
C27_TestedForms ==
  \A i \in 1..Len(tcall) :
    /\ Peeked(i) /\ tcall[i].pieces \in TestedNumbers =>
         GivesNumber(i, LiteralValue(tcall[i].pieces))
    /\ Peeked(i) /\ tcall[i].pieces \in TestedBadNumbers =>
         tcall[i].raised # <<>>
C27_HalfRejected ==
  /\ tcall # <<>>
  /\ Peeked(1)
  /\ tcall[1].pieces = <<"0", ".", "5">>
  /\ tcall[1].raised # <<>>

\* -------------------------------------------------------------------- C28
\* Both strings were accepted; the release a build is written for, the
\* number of its beta (0 for none) and of its commits (0 for none).
Accepted ==
  /\ versions.a # <<>>
  /\ versions.a[1].raised = "None"
  /\ versions.b[1].raised = "None"
Release(b) ==
  <<DigitsValue(b.major, 10), DigitsValue(b.minor, 10), DigitsValue(b.revision, 10)>>
Lower(x, y) ==
  \E k \in 1..3 : x[k] < y[k] /\ \A j \in 1..(k - 1) : x[j] = y[j]
BetaOf(b) ==
  IF b.beta = <<>> THEN 0
  ELSE IF b.beta[1] = <<>> THEN 1 ELSE DigitsValue(b.beta[1], 10)
CommitsOf(b) == IF b.commits = <<>> THEN 0 ELSE DigitsValue(b.commits[1], 10)

\* C28: the four numbers of an accepted version are in 0..65535, and the
\* packed numbers compare as the builds do: a beta of X is above every build
\* of a release below X and below every build of the release X; on one
\* release a higher beta number is above a lower one whatever the commits;
\* on one release and one beta more commits are above fewer, and with the
\* same commits the dirty build is above the clean one.
C28_VersionOrder ==
  Accepted =>
    LET g == versions.greater[1]
        l == versions.less[1]
        a == Packed(versions.a[1].v)
        b == Packed(versions.b[1].v)
    IN  /\ \A k \in 1..4 : versions.a[1].v[k] \in 0..65535
        /\ BetaOf(g) > 0 /\ BetaOf(l) = 0 /\ Lower(Release(l), Release(g)) =>
             Greater(a, b)
        /\ BetaOf(l) > 0 /\ BetaOf(g) = 0 /\ Release(g) = Release(l) =>
             Greater(a, b)
        /\ Release(g) = Release(l) /\ BetaOf(g) > BetaOf(l) /\ BetaOf(l) > 0 =>
             Greater(a, b)
        /\ Release(g) = Release(l) /\ BetaOf(g) = BetaOf(l) =>
             /\ CommitsOf(g) > CommitsOf(l) => Greater(a, b)
             /\ CommitsOf(g) = CommitsOf(l) /\ g.dirty /\ ~l.dirty => Greater(a, b)

\* The beta of v1.0.0 with 4095 commits is compared with the dirty build of
\* v0.65535.65535 with 4095 commits.
C28_BetaAboveLastBuildBelow ==
  /\ Accepted
  /\ versions.greater[1] = Build(<<"1">>, <<"0">>, <<"0">>, << <<>> >>, <<>>, FALSE)
  /\ versions.less[1]
       = Build(<<"0">>, Num65535, Num65535, <<>>, << <<"4", "0", "9", "5">> >>, TRUE)
  /\ versions.a[1].v = <<0, 65535, 65535, 8192>>
  /\ versions.b[1].v = <<0, 65535, 65535, 8191>>

\* ------------------------------------ the loops of idl_parser.IdlParser
\* The loops of the hand-written parser, one turn at a time.  loop holds
\* the frame of the call: fn the method called, contents its text, pc the
\* loop the call is in ("returned" and "raised" once it has ended), r the
\* reader with the locals, name the name of the dictionary being read,
\* types the definitions read so far and turns the turns taken.
LoopFrame(fn, contents, pc, r, name, types) ==
  [contents |-> contents, name |-> name, r |-> r, types |-> types, pc |-> pc,
   fn |-> fn, turns |-> 0]

\* The texts of the calls: every prefix of two dictionaries on two lines,
\* the same with a token that is no definition or no token at all, and the
\* argument lists with every prefix of the longest ones.
TwoDictionaries ==
  Lines(<<Dict("Foo", <<kwLong, Sp, Wd("a", 1), Pn(";"), Sp, kwLong, Sp,
                         Wd("b", 1), Pn(";")>>),
          Dict("Bar", <<>>)>>)
PrefixesOf(text) == { SubSeq(text, 1, n) : n \in 0..Len(text) }
FileTexts ==
  PrefixesOf(TwoDictionaries)
    \cup { p \o <<x>> : p \in PrefixesOf(TwoDictionaries), x \in {Bad, One} }
LoopForms == { fs \in FormLists : \A k \in 1..Len(fs) : fs[k] \in {"plain", "variadic"} }
ArgTexts ==
  { ArgList(fs) : fs \in LoopForms }
    \cup UNION { PrefixesOf(ArgList(fs)) : fs \in { f \in LoopForms : Len(f) = MaxArgs } }

\* parser.parse_file(name, contents) and parser.read_arg_list() entered.
InitLoop ==
  /\ parser = <<>>
  /\ ctor = NoCtor
  /\ call = NoCall
  /\ reader = NoReader
  /\ sreader = NoStringReader
  /\ threads = <<>>
  /\ versions = <<>>
  /\ \/ /\ loop = <<>>
        /\ \E ps \in TokenTexts :
             /\ tokenizer = <<IdlTokenizer_new(PiecesText(ps))>>
             /\ tcall = <<[raised |-> <<>>, ret |-> <<>>, token_type |-> "None",
                           op |-> "IdlTokenizer", pieces |-> ps]>>
     \/ /\ tokenizer = <<>>
        /\ tcall = <<>>
        /\ \/ \E contents \in FileTexts :
                loop = <<LoopFrame("parse_file", contents, "parse_file",
                                   IdlTokenizer(contents), "", <<>>)>>
           \/ \E contents \in ArgTexts :
                loop = <<LoopFrame("read_arg_list", contents, "read_arg_list",
                                   IdlTokenizer(contents), "", <<>>)>>

Ended(pc) == pc \in {"returned", "raised"}

\* The reader between two turns: the locals of a turn are assigned anew in
\* the next one before they are read.
Live(r) ==
  [r EXCEPT !.v = <<>>, !.type_ = <<>>, !.arg_name = "", !.default = <<>>,
            !.optional = FALSE, !.variadic = FALSE]

\* The frame after a call that gave the reader r: the SyntaxError leaves
\* the method, otherwise the method goes on at pc.
Goes(f, r, pc) ==
  IF Raised(r) THEN [f EXCEPT !.pc = "raised", !.r = Live(r)]
  ELSE [f EXCEPT !.pc = pc, !.r = Live(r)]

Turn(f) ==
  /\ loop' = <<[f EXCEPT !.turns = @ + 1]>>
  /\ UNCHANGED <<parser, ctor, call, reader, sreader, tokenizer, tcall, threads,
                 versions>>

\* One turn of `while self._reader.peek()` of parse_file, up to the loop of
\* read_dictionary; the end of the input returns the definitions.
DefinitionTurn ==
  /\ loop # <<>> /\ loop[1].pc = "parse_file"
  /\ \E f \in {loop[1]} :
       IF Raised(Guard(f.r)) THEN Turn(Goes(f, Guard(f.r), "raised"))
       ELSE IF peek_type(f.r) = "None" THEN Turn([f EXCEPT !.pc = "returned"])
       ELSE IF ~peek_is_type(f.r, "DICTIONARY")
       THEN Turn(Goes(f, raise_error(f.r, "Invalid top-level token"), "raised"))
       ELSE \E name \in {expect(expect([f.r EXCEPT !.ret = <<>>], "DICTIONARY"),
                                "IDENTIFIER")} :
              IF Raised(name) THEN Turn(Goes(f, name, "raised"))
              ELSE Turn([Goes(f, expect(name, "{"), "read_dictionary")
                           EXCEPT !.name = name.v.value])

\* One turn of the loop of read_dictionary over the members; at '}' or at
\* the end of the input the loop is left and the dictionary is closed.
MemberTurn ==
  /\ loop # <<>> /\ loop[1].pc = "read_dictionary"
  /\ \E f \in {loop[1]} :
       IF Raised(Guard(f.r)) THEN Turn(Goes(f, Guard(f.r), "raised"))
       ELSE IF peek_type(f.r) \in {"None", "}"}
       THEN \E z \in {expect(expect(f.r, "}"), ";")} :
              IF Raised(z) THEN Turn(Goes(f, z, "raised"))
              ELSE Turn([Goes(f, z, "parse_file") EXCEPT
                           !.types = @ \o <<[name |-> f.name, attributes |-> z.ret]>>])
       ELSE \E s \in {expect(Assign(expect(Assign([read_type(f.r) EXCEPT !.v = <<@>>],
                                                   "type_"),
                                            "IDENTIFIER"), "arg_name"), ";")} :
              IF Raised(s) THEN Turn(Goes(f, s, "raised"))
              ELSE Turn(Goes(f, [s EXCEPT !.ret = @ \o <<[type |-> s.type_[1],
                                                          name |-> s.arg_name.value]>>],
                             "read_dictionary"))

\* read_arg_list up to its loop: '(' and the test for an empty list.
OpenList ==
  /\ loop # <<>> /\ loop[1].pc = "read_arg_list"
  /\ \E f \in {loop[1]} :
       \E b \in {Guard(expect(f.r, "("))} :
         IF Raised(b) THEN Turn(Goes(f, b, "raised"))
         ELSE IF peek_is_type(b, ")") THEN Turn(Goes(f, b, "close"))
         ELSE Turn(Goes(f, b, "arguments"))

\* One turn of `while True` of read_arg_list: an argument and the ',' that
\* follows it; without a ',' the loop is left.
ArgumentTurn ==
  /\ loop # <<>> /\ loop[1].pc = "arguments"
  /\ \E f \in {loop[1]} :
       \E r \in {Guard(read_argument(f.r))} :
         IF Raised(r) THEN Turn(Goes(f, r, "raised"))
         ELSE IF peek_is_type(r, ",")
         THEN IF r.variadic
              THEN Turn(Goes(f, raise_error(r, "An argument with ... must appear last"),
                             "raised"))
              ELSE Turn(Goes(f, expect(r, ","), "arguments"))
         ELSE Turn(Goes(f, r, "close"))

\* The ')' that ends read_arg_list.
CloseList ==
  /\ loop # <<>> /\ loop[1].pc = "close"
  /\ \E f \in {loop[1]} : Turn(Goes(f, expect(f.r, ")"), "returned"))

\* tokenizer.next()
NextToken == tokenizer # <<>> /\ Next_

NextLoop ==
  \/ NextToken
  \/ DefinitionTurn
  \/ MemberTurn
  \/ OpenList
  \/ ArgumentTurn
  \/ CloseList

SpecLoop == InitLoop /\ [][NextLoop]_vars

\* A call of next() gives None, raises, or gives a token of one character
\* or more and leaves the cursor further on than it was.
TokenProgress ==
  tokenizer # <<>> =>
    \/ tcall'[1].raised # <<>>
    \/ tcall'[1].ret = <<>>
    \/ /\ tcall'[1].ret[1].length >= 1
       /\ tokenizer'[1]._reader._pos > tokenizer[1]._reader._pos

\* A turn of a loop ends the call or leaves the reader at a later token.
LoopProgress ==
  loop # <<>> => Ended(loop'[1].pc) \/ loop'[1].r.i > loop[1].r.i

\* What a call that has ended gives is what the method gives on its text.
Agrees ==
  loop # <<>> /\ Ended(loop[1].pc) =>
    \E p \in {IF loop[1].fn = "parse_file" THEN parse_file(loop[1].contents)
              ELSE read_arg_list(loop[1].contents)} :
      IF loop[1].pc = "raised" THEN p.raised = loop[1].r.raised /\ p.raised # <<>>
      ELSE /\ p.raised = <<>>
           /\ p.v = IF loop[1].fn = "parse_file" THEN loop[1].types ELSE loop[1].r.ret

\* The cursor lies within the text, the reader of the parser within its
\* tokens or just after them, and a call has taken no more turns than it
\* has read tokens, the turn that ends it apart.
Bounded ==
  /\ tokenizer # <<>> =>
        tokenizer[1]._reader._pos \in 0..Len(tokenizer[1]._reader._data)
  /\ loop # <<>> =>
        /\ loop[1].r.i \in 1..(Len(loop[1].r.toks) + 1)
        /\ loop[1].turns <= loop[1].r.i

UnionBody == <<Pn("("), Pn(")"), Sp, Wd("x", 1), Pn(";")>>
UnionArgument ==
  <<Pn("["), Wd("ArgList", 7), Pn("("), Pn("("), Pn(")"), Sp, Wd("a", 1),
    Pn(")"), Pn("]"), Sp>> \o Dict("Foo", <<>>)

\* The lines of the texts: dictionaries that are accepted, dictionaries with
\* a member list that is not, annotations that are rejected, and the two
\* with the type '(' ')'.
RecoveryLines ==
  { Dict("foo", b) : b \in {<<>>, <<kwLong, Sp, Wd("x", 1), Pn(";")>>} \cup BadBodies }
    \cup { Dict("foo", OpenBody), Dict("foo", UnionBody), UnionArgument,
           Annotated(<<"NoArgs=Foo", "Bar">>), Annotated(<<"Boom">>),
           Annotated(<<"NoArgs">>) }
RecoveryTexts ==
  { Lines(ls) : ls \in UNION { [1..n -> RecoveryLines] : n \in 1..MaxDefs } }

\* The grammar parser, under each construction, on the texts.
NextRecovery ==
  \/ \E a \in ConstructorArgs : Construct(a[1], a[2])
  \/ \E contents \in RecoveryTexts : Parse(contents)

SpecRecovery == Init /\ [][NextRecovery]_vars

\* The call went through a recovery path.
Recovered == call.run.rec > 0

\* A dictionary of p_Dictionary_error: it has no debug (p_Dictionary always
\* gives one) and no members.
Discarded(d) == d.debug = <<>> /\ d.attributes = <<>>

\* The definitions of the Results returned.
ReturnedTypes == IF Raises("Results") THEN call.outcome.types ELSE <<>>

\* The text has a line with the type '(' ')'.
HasUnion(contents) ==
  \E k \in 1..(Len(contents) - 1) :
    /\ contents[k] = Pn("(")
    /\ contents[k + 1] = Pn(")")
    /\ k > 1
    /\ contents[k - 1] \in {Pn("("), Pn("{")}

\* C30: a call of parse that took a recovery path (the recovery production
\* of the dictionary body, that of the extension list, or a None returned
\* for a rejected annotation) has recorded at least one error; so no Results
\* returned holds a dictionary whose members recovery discarded, nor a None
\* in a list of extensions.
C30_RecoveryRecordsError ==
  call.n > 0 =>
    /\ Recovered => call.run.errs # <<>>
    /\ \A k \in 1..Len(ReturnedTypes) :
         /\ ~Discarded(ReturnedTypes[k])
         /\ \A j \in 1..Len(ReturnedTypes[k].extensions) :
              ReturnedTypes[k].extensions[j] # <<>>

\* The same on the texts without the type '(' ')': there the recovery
\* follows an error that p_error or p_ExtendedAttribute recorded.
C30_RecordedUnlessRuleRaised ==
  call.n > 0 /\ ~HasUnion(call.contents) =>
    /\ Recovered => call.run.errs # <<>>
    /\ \A k \in 1..Len(ReturnedTypes) :
         /\ ~Discarded(ReturnedTypes[k])
         /\ \A j \in 1..Len(ReturnedTypes[k].extensions) :
              ReturnedTypes[k].extensions[j] # <<>>

\* Results is returned with a dictionary whose member was discarded, no
\* error having been recorded.
C30_MemberLostSilently ==
  /\ call.n > 0
  /\ call.contents = Dict("foo", UnionBody)
  /\ Raises("Results")
  /\ Recovered
  /\ NoErrorRecorded
  /\ Len(call.outcome.types) = 1
  /\ Discarded(call.outcome.types[1])
====
